---- MODULE Spec2Model ----
(***************************************************************************)
(* A model of the crestview-lunch-menu worker: the Temporal Index          *)
(* (MonthlyMenu.getWeeklyMenuForDate, src/src/models.ts) and the two       *)
(* streaming calendar parsers (parseCalendarFragment with a closure state  *)
(* object, src/unnamed/part_000, and with the ScraperState class,          *)
(* src/unnamed/part_001).                                                  *)
(*                                                                         *)
(* The specifications share the module's variables:                        *)
(*   SpecIndex     a MonthlyMenu that is built with addWeeklyMenu and      *)
(*                 queried with getWeeklyMenuForDate;                      *)
(*   SpecParse     one calendar fragment delivered element by element to   *)
(*                 one of the two parseCalendarFragment versions, then the *)
(*                 end of the stream;                                      *)
(*   SpecItem      the colour and title handlers on one open menu item;    *)
(*   SpecFetch     one call of fetchAllMealsForDateAjax, with the week     *)
(*                 bucketer groupDailyMenusByWeek;                         *)
(*   SpecItemJson  one MenuItem made by the constructor or by fromJSON;    *)
(*   SpecJson      a MonthlyMenu built, written as JSON and read back;     *)
(*   SpecWeekday   a WeeklyMenu queried with getMealsByWeekday;            *)
(*   SpecStore     scheduled and seed runs that scrape and write the       *)
(*                 stored menu object;                                     *)
(*   SpecScheduled a MonthlyMenu queried with getWeeklyMenuForDate and     *)
(*                 with the selection of fetchWeeklyMenuForScheduledRun;   *)
(*   SpecDate      fragments whose date elements lack a component or have  *)
(*                 a malformed one;                                        *)
(*   SpecStream    one fragment read by both parseCalendarFragment         *)
(*                 versions at once, with the elements recorded;           *)
(*   SpecParses    two parseCalendarFragment calls whose elements are      *)
(*                 interleaved;                                            *)
(*   SpecLayout    the weekday selections of the half and quadrant         *)
(*                 layouts, getHalfVerticalWeekdays and getQuadrantWeekday;*)
(*   SpecColumn    the weekday columns of the layouts on weeks made by     *)
(*                 groupDailyMenusByWeek;                                  *)
(*   SpecWorker    POST /api/markup requests and scheduled runs under the  *)
(*                 'now' middleware and the fake clock;                    *)
(*   SpecAmbient   getWeeklyMenuForDate called while requests move the     *)
(*                 fake clock and the real clock advances.                 *)
(***************************************************************************)
EXTENDS Integers, Sequences, FiniteSets, TLC

VARIABLES
    \* ---- SpecIndex: MonthlyMenu and the latest getWeeklyMenuForDate call
    weeklyMenus,   \* MonthlyMenu.weeklyMenus: sequence of [startDate, endDate]
    targetDate,    \* argument of the latest getWeeklyMenuForDate call
    result,        \* its return value: index into weeklyMenus, 0 for null
    ipc,           \* "idle" (no result outstanding) or "returned"
    \* ---- SpecParse: one fragment parsed by one of the two
    \* parseCalendarFragment versions
    version,       \* which one runs: "closure" (part_000) or "ScraperState" (part_001)
    mealType,      \* the mealType argument of the parse
    state,         \* part_000: the closure's state object
    dayBoxes,      \* part_000: the completed day boxes
    dailyMenus,    \* part_000: the DailyMenu[] the parse resolves to
    threw,         \* part_000: the parse rejected with an error instead
    scraperState,  \* part_001: the ScraperState instance
    doc,           \* the fragment read so far: its day-box elements (each
                   \* with its class set and the number of item containers
                   \* inside it), and the number of its item containers
    ppc,           \* "idle", "parsing" (elements arriving) or "done"
    \* ---- SpecFetch: one call of fetchAllMealsForDateAjax
    fetchDate,     \* its targetDate argument
    fetched,       \* what fetchMenuForDateAjax returned for the meal types
                   \* tried so far: "null" or "menus"
    allDailyMenus, \* the allDailyMenus array
    monthlyMenu,   \* the value the call resolved to (null or a MonthlyMenu)
    fpc,           \* "idle", "fetching", "returned" or "rejected"
    \* ---- SpecJson and SpecWeekday: a MonthlyMenu and what is made from it
    monthly,       \* the MonthlyMenu object
    json,          \* JSON.parse(JSON.stringify(monthly)), null before
    restored,      \* MonthlyMenu.fromJSON(json), null before
    weekday,       \* argument of the latest getMealsByWeekday call
    meals,         \* its return value, null before
    itemData,      \* argument of the latest MenuItem.fromJSON call
    item,          \* its return value, null before
    \* ---- SpecStore: the worker's runs that write the stored menu
    stored,        \* the value under MENU_PATH in MENU_DATA, null when absent
    runs,          \* the scheduled runs and /api/seed requests started so far
    scraped,       \* the MonthlyMenus that fetchAllMealsForDateAjax returned
    \* ---- SpecScheduled: the week fetchWeeklyMenuForScheduledRun selects
    scheduledWeek, \* index into weeklyMenus, 0 for null
    \* ---- SpecStream and SpecParses: parses with their fragments
    events,        \* the elements delivered so far to the parse of SpecStream
    parses,        \* SpecParses: the parseCalendarFragment calls in progress
    \* ---- SpecWorker: the worker's clock and its requests
    fakeNow,       \* the module variable FAKE_NOW: null or a Date
    clock,         \* the real time, what new Date() gives (a day number)
    reqs,          \* the requests and scheduled runs in progress
    overrides,     \* the requests whose 'now' parameter took effect, with
                   \* the Date each set, oldest first
    \* ---- SpecLayout and SpecColumn: the day selection of the layouts
    layout,        \* the latest getHalfVerticalWeekdays call, null before
    column         \* the latest createWeekdayColumn call, null before

indexVars == <<weeklyMenus, targetDate, result, ipc>>

parseVars == <<version, mealType, state, dayBoxes, dailyMenus, threw, scraperState, doc, ppc>>

fetchVars == <<fetchDate, fetched, allDailyMenus, monthlyMenu, fpc>>

menuVars == <<monthly, json, restored, weekday, meals, itemData, item>>

storeVars == <<stored, runs, scraped>>

scheduleVars == <<scheduledWeek>>

streamVars == <<events, parses>>

workerVars == <<fakeNow, clock, reqs, overrides>>

layoutVars == <<layout, column>>

restVars == <<storeVars, scheduleVars, streamVars, workerVars, layoutVars>>

vars == <<indexVars, parseVars, fetchVars, menuVars, restVars>>

(***************************************************************************)
(* Calendar dates.  A JavaScript Date is modelled at day granularity as    *)
(* the number of days since 1970-01-01 in local time (the code forces      *)
(* noon, or only reads local calendar fields).  A "yyyy-MM-dd" string is   *)
(* modelled as the record [yyyy, MM, dd] of its fields; for four-digit     *)
(* years the string order of the zero-padded text is the lexicographic     *)
(* order of the fields.                                                    *)
(***************************************************************************)

\* days since 1970-01-01 of the proleptic Gregorian date y-m-d
DaysFromCivil(y, m, d) ==
    LET yy  == IF m <= 2 THEN y - 1 ELSE y
        era == yy \div 400
        yoe == yy - era * 400
        mp  == IF m > 2 THEN m - 3 ELSE m + 9
        doy == (153 * mp + 2) \div 5 + d - 1
        doe == yoe * 365 + yoe \div 4 - yoe \div 100 + doy
    IN  era * 146097 + doe - 719468

\* the calendar date <<y, m, d>> of day number z
CivilFromDays(z) ==
    LET zz  == z + 719468
        era == zz \div 146097
        doe == zz - era * 146097
        yoe == (doe - doe \div 1460 + doe \div 36524 - doe \div 146096) \div 365
        doy == doe - (365 * yoe + yoe \div 4 - yoe \div 100)
        mp  == (5 * doy + 2) \div 153
        d   == doy - (153 * mp + 2) \div 5 + 1
        m   == IF mp < 10 THEN mp + 3 ELSE mp - 9
        y   == yoe + era * 400 + (IF m <= 2 THEN 1 ELSE 0)
    IN  <<y, m, d>>

\* Date.prototype.getDay: 0 = Sunday .. 6 = Saturday (1970-01-01 was a Thursday)
GetDay(t) == (t + 4) % 7

\* Date.prototype.getDate: the day of the month
GetDate(t) == CivilFromDays(t)[3]

\* Date.prototype.setDate(n): day n of the date's month, rolling over the
\* month's end into the following months
SetDate(t, n) ==
    LET c == CivilFromDays(t) IN DaysFromCivil(c[1], c[2], 1) + n - 1

\* the string "yyyy-MM-dd" with the given fields
Iso(y, m, d) == [yyyy |-> y, MM |-> m, dd |-> d]

\* date-fns format(date, "yyyy-MM-dd")
Format(t) ==
    LET c == CivilFromDays(t) IN Iso(c[1], c[2], c[3])

\* date-fns parseISO(str + "T12:00:00")
ParseISO(str) == DaysFromCivil(str.yyyy, str.MM, str.dd)

\* JavaScript string comparison a <= b of two "yyyy-MM-dd" strings
StrLE(a, b) ==
    \/ a.yyyy < b.yyyy
    \/ a.yyyy = b.yyyy /\ a.MM < b.MM
    \/ a.yyyy = b.yyyy /\ a.MM = b.MM /\ a.dd <= b.dd

\* JavaScript string comparison a >= b
StrGE(a, b) == StrLE(b, a)

\* Array.prototype.find: index of the first element satisfying P, 0 (null) if none
Find(seq, P(_)) ==
    IF \E i \in 1..Len(seq) : P(seq[i])
    THEN CHOOSE i \in 1..Len(seq) : P(seq[i]) /\ \A j \in 1..(i - 1) : ~P(seq[j])
    ELSE 0

(***************************************************************************)
(* WeeklyMenu and MonthlyMenu (src/src/models.ts)                          *)
(***************************************************************************)

\* data.field ?? fallback, for a field the data may lack
Opt(data, field, fallback) == IF field \in DOMAIN data THEN data[field] ELSE fallback

\* new WeeklyMenu(data): both strings parsed at local noon, dailyMenus
\* defaults to []
WeeklyMenu(data) ==
    [startDate |-> ParseISO(data.startDate),
     endDate |-> ParseISO(data.endDate),
     dailyMenus |-> Opt(data, "dailyMenus", <<>>)]

\* new MonthlyMenu(data): weeklyMenus defaults to []
MonthlyMenu(data) ==
    [year |-> data.year,
     month |-> data.month,
     weeklyMenus |-> Opt(data, "weeklyMenus", <<>>)]

\* mutant: the containing week found with a strict lower bound
StartsOnOrBefore_Strict(menu, targetDateStr) ==
    /\ Format(menu.startDate) /= targetDateStr
    /\ StrLE(Format(menu.startDate), targetDateStr)

\* models.ts:340, first conjunct of the weekday predicate
StartsOnOrBefore(menu, targetDateStr) ==
    StrLE(Format(menu.startDate), targetDateStr)

\* models.ts:339-340, the predicate of the weekday find
ContainsDate(menu, targetDateStr) ==
    /\ StartsOnOrBefore(menu, targetDateStr)
    /\ StrGE(Format(menu.endDate), targetDateStr)

\* models.ts:333, the predicate of the weekend find
StartsOnOrAfter(menu, nextMondayStr) ==
    StrGE(Format(menu.startDate), nextMondayStr)

\* variant: on a weekend date the week with the earliest startDate on or
\* after the next Monday, wherever it is in the list
GetWeeklyMenuForDate_Earliest(menus, date) ==
    LET dayOfWeek == GetDay(date)
        isWeekend == dayOfWeek = 0 \/ dayOfWeek = 6
    IN  IF isWeekend
        THEN LET daysUntilMonday == IF dayOfWeek = 0 THEN 1 ELSE 2
                 nextMonday      == SetDate(date, GetDate(date) + daysUntilMonday)
                 nextMondayStr   == Format(nextMonday)
             IN  Find(menus, LAMBDA menu :
                     /\ StartsOnOrAfter(menu, nextMondayStr)
                     /\ \A i \in 1..Len(menus) :
                            StartsOnOrAfter(menus[i], nextMondayStr)
                                => menu.startDate <= menus[i].startDate)
        ELSE LET targetDateStr == Format(date)
             IN  Find(menus, LAMBDA menu : ContainsDate(menu, targetDateStr))

\* variant: the reference date is the ambient current date, not the argument
GetWeeklyMenuForDate_Ambient(menus, date) ==
    LET now       == IF fakeNow /= [null |-> TRUE] THEN fakeNow.time ELSE clock
        dayOfWeek == GetDay(now)
        isWeekend == dayOfWeek = 0 \/ dayOfWeek = 6
    IN  IF isWeekend
        THEN LET daysUntilMonday == IF dayOfWeek = 0 THEN 1 ELSE 2
                 nextMonday      == SetDate(now, GetDate(now) + daysUntilMonday)
                 nextMondayStr   == Format(nextMonday)
             IN  Find(menus, LAMBDA menu : StartsOnOrAfter(menu, nextMondayStr))
        ELSE LET targetDateStr == Format(now)
             IN  Find(menus, LAMBDA menu : ContainsDate(menu, targetDateStr))

\* MonthlyMenu.getWeeklyMenuForDate
GetWeeklyMenuForDate(menus, date) ==
    LET dayOfWeek == GetDay(date)
        isWeekend == dayOfWeek = 0 \/ dayOfWeek = 6
    IN  IF isWeekend
        THEN LET daysUntilMonday == IF dayOfWeek = 0 THEN 1 ELSE 2
                 nextMonday      == SetDate(date, GetDate(date) + daysUntilMonday)
                 nextMondayStr   == Format(nextMonday)
             IN  Find(menus, LAMBDA menu : StartsOnOrAfter(menu, nextMondayStr))
        ELSE LET targetDateStr == Format(date)
             IN  Find(menus, LAMBDA menu : ContainsDate(menu, targetDateStr))

(***************************************************************************)
(* SpecIndex                                                               *)
(***************************************************************************)

\* no parse is in progress
NoParse ==
    /\ version = "closure"
    /\ mealType = "lunch"
    /\ state = [currentDayBox |-> [null |-> TRUE], currentMenuItem |-> [null |-> TRUE]]
    /\ dayBoxes = <<>>
    /\ dailyMenus = <<>>
    /\ threw = FALSE
    /\ scraperState = [mealType |-> "lunch", currentDayBox |-> [null |-> TRUE],
                       currentMenuItem |-> [null |-> TRUE], completedDays |-> <<>>]
    /\ doc = [boxes |-> <<>>, infos |-> 0]
    /\ ppc = "idle"

\* no fetchAllMealsForDateAjax call is in progress
NoFetch ==
    /\ fetchDate = 0
    /\ fetched = <<>>
    /\ allDailyMenus = <<>>
    /\ monthlyMenu = [null |-> TRUE]
    /\ fpc = "idle"

\* no MonthlyMenu object is under construction
NoMenu ==
    /\ monthly = [null |-> TRUE]
    /\ json = [null |-> TRUE]
    /\ restored = [null |-> TRUE]
    /\ weekday = 0
    /\ meals = [null |-> TRUE]
    /\ itemData = [null |-> TRUE]
    /\ item = [null |-> TRUE]

\* nothing is stored and no run has started
NoStore ==
    /\ stored = [null |-> TRUE]
    /\ runs = <<>>
    /\ scraped = {}

\* no fetchWeeklyMenuForScheduledRun selection was made
NoSchedule == scheduledWeek = 0

\* no parse with an event history is running
NoStream ==
    /\ events = <<>>
    /\ parses = <<>>

\* no request is in progress and the clock was not read
NoWorker ==
    /\ fakeNow = [null |-> TRUE]
    /\ clock = 0
    /\ reqs = <<>>
    /\ overrides = <<>>

\* no layout asked for its days
NoLayout ==
    /\ layout = [null |-> TRUE]
    /\ column = [null |-> TRUE]

NoRest == NoStore /\ NoSchedule /\ NoStream /\ NoWorker /\ NoLayout

\* no getWeeklyMenuForDate call is outstanding
NoIndex ==
    /\ weeklyMenus = <<>>
    /\ targetDate = 0
    /\ result = 0
    /\ ipc = "idle"

\* bounds
MaxWeeks == 3
NumTargetDays == 37

\* the weeks a caller may add: four consecutive Monday-to-Sunday weeks across
\* the 2023/2024 year change, and one window that is not Monday-aligned
WeekData ==
    { [startDate |-> Iso(2023, 12, 25), endDate |-> Iso(2023, 12, 31)],
      [startDate |-> Iso(2024,  1,  1), endDate |-> Iso(2024,  1,  7)],
      [startDate |-> Iso(2024,  1,  8), endDate |-> Iso(2024,  1, 14)],
      [startDate |-> Iso(2024,  1, 15), endDate |-> Iso(2024,  1, 21)],
      [startDate |-> Iso(2024,  1, 24), endDate |-> Iso(2024,  1, 26)] }

\* the dates a caller may ask for: consecutive days from Sat 2023-12-23
TargetDates ==
    { DaysFromCivil(2023, 12, 23) + k : k \in 0..(NumTargetDays - 1) }

\* new MonthlyMenu({year, month}): weeklyMenus defaults to []
InitIndex ==
    /\ weeklyMenus = <<>>
    /\ targetDate = 0
    /\ result = 0
    /\ ipc = "idle"
    /\ NoParse
    /\ NoFetch
    /\ NoMenu
    /\ NoRest

\* MonthlyMenu.addWeeklyMenu; a result returned earlier is no longer outstanding
AddWeeklyMenu(data) ==
    /\ Len(weeklyMenus) < MaxWeeks
    /\ weeklyMenus' = Append(weeklyMenus, WeeklyMenu(data))
    /\ targetDate' = 0
    /\ result' = 0
    /\ ipc' = "idle"
    /\ UNCHANGED <<parseVars, fetchVars, menuVars, restVars>>

\* a call of MonthlyMenu.getWeeklyMenuForDate(date)
CallGetWeeklyMenuForDate(date) ==
    /\ targetDate' = date
    /\ result' = GetWeeklyMenuForDate(weeklyMenus, date)
    /\ ipc' = "returned"
    /\ UNCHANGED <<weeklyMenus, parseVars, fetchVars, menuVars, restVars>>

NextIndex ==
    \/ \E data \in WeekData : AddWeeklyMenu(data)
    \/ \E date \in TargetDates : CallGetWeeklyMenuForDate(date)

SpecIndex == InitIndex /\ [][NextIndex]_vars

(***************************************************************************)
(* Claims about the Temporal Index, stated on day numbers (calendar days)  *)
(* rather than on the formatted strings the code compares.                 *)
(***************************************************************************)

IsWeekendDate(t) == GetDay(t) = 0 \/ GetDay(t) = 6

\* startDate <= t <= endDate as calendar days
Covers(menu, t) == menu.startDate <= t /\ t <= menu.endDate

\* the Monday immediately after a Saturday (t + 2) or a Sunday (t + 1)
MondayAfter(t) == IF GetDay(t) = 6 THEN t + 2 ELSE t + 1

\* the resolution rule of the specification: a weekday resolves to a week that
\* contains it, a weekend day to the week that starts on the Monday after it
SatisfiesRule(menu, t) ==
    IF IsWeekendDate(t) THEN menu.startDate = MondayAfter(t) ELSE Covers(menu, t)

\* C1: for a Monday-to-Friday date the result is a week of the list that
\* contains the date whenever the list holds one (the week's Monday and Friday
\* included), and the result is never a week that does not contain the date.
C1_WeekdayContainingWeek ==
    (ipc = "returned" /\ ~IsWeekendDate(targetDate)) =>
        /\ result /= 0 => Covers(weeklyMenus[result], targetDate)
        /\ (\E i \in 1..Len(weeklyMenus) : Covers(weeklyMenus[i], targetDate))
               => result /= 0

\* C1 witness: a Monday that is the first day of the second week of the list
\* was asked for and that week was returned
C1_Witness ==
    /\ ipc = "returned"
    /\ GetDay(targetDate) = 1
    /\ result = 2
    /\ weeklyMenus[2].startDate = targetDate
    /\ ~Covers(weeklyMenus[1], targetDate)

\* C2: for a Saturday or Sunday date the result is the following week, the
\* week whose startDate is the Monday immediately after the date; it is never
\* the week containing the date and never a later week.
C2_WeekendFollowingWeek ==
    (ipc = "returned" /\ IsWeekendDate(targetDate)) =>
        /\ result /= 0 => weeklyMenus[result].startDate = MondayAfter(targetDate)
        /\ (\E i \in 1..Len(weeklyMenus) :
               weeklyMenus[i].startDate = MondayAfter(targetDate)) => result /= 0

\* C3: the result is null whenever no week of the list satisfies the
\* resolution rule (weekday outside every week, weekend without its following
\* week, empty list).
C3_NullWhenNoWeekSatisfiesRule ==
    (ipc = "returned"
       /\ \A i \in 1..Len(weeklyMenus) : ~SatisfiesRule(weeklyMenus[i], targetDate))
        => result = 0

(***************************************************************************)
(* Strings.  Text that the code searches, splits or rewrites is modelled   *)
(* as a sequence of one-character strings.                                 *)
(***************************************************************************)

\* String.prototype.concat
Concat(a, b) == a \o b

\* whitespace (\s of a regular expression, the characters trim removes)
IsSpace(c) == c = " "

\* String.prototype.trim
RECURSIVE TrimStart(_)
TrimStart(str) ==
    IF str /= <<>> /\ IsSpace(Head(str)) THEN TrimStart(Tail(str)) ELSE str

RECURSIVE TrimEnd(_)
TrimEnd(str) ==
    IF str /= <<>> /\ IsSpace(str[Len(str)])
    THEN TrimEnd(SubSeq(str, 1, Len(str) - 1))
    ELSE str

Trim(str) == TrimEnd(TrimStart(str))

\* whether pattern occurs in str at position i
OccursAt(str, pattern, i) ==
    /\ i >= 1
    /\ i + Len(pattern) - 1 <= Len(str)
    /\ SubSeq(str, i, i + Len(pattern) - 1) = pattern

\* String.prototype.includes
Includes(str, pattern) == \E i \in 1..(Len(str) + 1) : OccursAt(str, pattern, i)

\* String.prototype.replace(/from/g, to)
RECURSIVE ReplaceAll(_, _, _)
ReplaceAll(str, from, to) ==
    IF Len(str) < Len(from) THEN str
    ELSE IF OccursAt(str, from, 1)
         THEN Concat(to, ReplaceAll(SubSeq(str, Len(from) + 1, Len(str)), from, to))
         ELSE Concat(<<Head(str)>>, ReplaceAll(Tail(str), from, to))

LowerCaseOf ==
    "A" :> "a" @@
    "B" :> "b" @@
    "C" :> "c" @@
    "D" :> "d" @@
    "E" :> "e" @@
    "F" :> "f" @@
    "G" :> "g" @@
    "H" :> "h" @@
    "I" :> "i" @@
    "J" :> "j" @@
    "K" :> "k" @@
    "L" :> "l" @@
    "M" :> "m" @@
    "N" :> "n" @@
    "O" :> "o" @@
    "P" :> "p" @@
    "Q" :> "q" @@
    "R" :> "r" @@
    "S" :> "s" @@
    "T" :> "t" @@
    "U" :> "u" @@
    "V" :> "v" @@
    "W" :> "w" @@
    "X" :> "x" @@
    "Y" :> "y" @@
    "Z" :> "z"

\* String.prototype.toLowerCase
ToLowerCase(str) ==
    [i \in 1..Len(str) |->
        IF str[i] \in DOMAIN LowerCaseOf THEN LowerCaseOf[str[i]] ELSE str[i]]

UpperCaseOf ==
    [c \in {LowerCaseOf[u] : u \in DOMAIN LowerCaseOf} |->
        CHOOSE u \in DOMAIN LowerCaseOf : LowerCaseOf[u] = c]

\* String.prototype.toUpperCase
ToUpperCase(str) ==
    [i \in 1..Len(str) |->
        IF str[i] \in DOMAIN UpperCaseOf THEN UpperCaseOf[str[i]] ELSE str[i]]

\* the text constants of the code
P_NoSchool == <<"n", "o", " ", "s", "c", "h", "o", "o", "l">>
P_WinterBreak == <<"w", "i", "n", "t", "e", "r", " ", "b", "r", "e", "a", "k">>
P_LastDayOfSchool == <<"l", "a", "s", "t", " ", "d", "a", "y", " ", "o", "f", " ", "s", "c", "h", "o", "o", "l">>
P_MemorialDay == <<"m", "e", "m", "o", "r", "i", "a", "l", " ", "d", "a", "y">>
P_Teacher == <<"t", "e", "a", "c", "h", "e", "r">>
P_SpringBreak == <<"s", "p", "r", "i", "n", "g", " ", "b", "r", "e", "a", "k">>
P_QuarterEnds == <<"q", "u", "a", "r", "t", "e", "r", " ", "e", "n", "d", "s">>
E_Amp == <<"&", "a", "m", "p", ";">>
E_Apos == <<"&", "#", "3", "9", ";">>
E_Quot == <<"&", "q", "u", "o", "t", ";">>
R_Background == <<"b", "a", "c", "k", "g", "r", "o", "u", "n", "d", ":">>
S_With == <<"w", "i", "t", "h">>
V_Vegan == <<"v", "e", "g", "a", "n">>
V_PlantForward == <<"p", "l", "a", "n", "t", " ", "f", "o", "r", "w", "a", "r", "d">>
V_PlantBased == <<"p", "l", "a", "n", "t", "-", "b", "a", "s", "e", "d">>
V_Vegetarian == <<"v", "e", "g", "e", "t", "a", "r", "i", "a", "n">>
V_Veggie == <<"v", "e", "g", "g", "i", "e">>
V_Tofu == <<"t", "o", "f", "u">>
V_Bean == <<"b", "e", "a", "n">>
V_Lentil == <<"l", "e", "n", "t", "i", "l">>
T_VeggieBurger == <<"V", "E", "G", "G", "I", "E", " ", "B", "u", "r", "g", "e", "r">>
T_Cheese == <<"w", "i", "t", "h", " ", "C", "h", "e", "e", "s", "e">>
T_VeganChili == <<"V", "e", "g", "a", "n", " ", "C", "h", "i", "l", "i">>
T_Pizza == <<"P", "i", "z", "z", "a">>
T_TofuWithRice == <<"T", "o", "f", "u", " ", "w", "i", "t", "h", " ", "R", "i", "c", "e">>
T_NoSchool == <<" ", "N", "o", " ", "S", "c", "h", "o", "o", "l", " ">>
T_QuarterEnds == <<"Q", "u", "a", "r", "t", "e", "r", " ", "E", "n", "d", "s">>

\* whether /\s+with\s+/ matches str starting at position i
WithMatchesAt(str, i) ==
    \E k \in 1..Len(str) :
        /\ \A j \in i..(i + k - 1) : j <= Len(str) /\ IsSpace(str[j])
        /\ OccursAt(str, S_With, i + k)
        /\ i + k + Len(S_With) <= Len(str)
        /\ IsSpace(str[i + k + Len(S_With)])

\* text.split(/\s+with\s+/): whether it gives more than one part, and parts[0]
SplitWith(str) ==
    IF \E i \in 1..Len(str) : WithMatchesAt(str, i)
    THEN LET first == CHOOSE i \in 1..Len(str) :
                         /\ WithMatchesAt(str, i)
                         /\ \A j \in 1..(i - 1) : ~WithMatchesAt(str, j)
         IN  [split |-> TRUE, head |-> SubSeq(str, 1, first - 1)]
    ELSE [split |-> FALSE, head |-> str]

(***************************************************************************)
(* Values shared by the two parsers                                        *)
(***************************************************************************)

\* null / undefined
NULL == [null |-> TRUE]

\* FoodCategory (models.ts:27-36)
MAIN_ENTREE == "Main Entree"
VEGETARIAN_ENTREE == "Vegetarian Entree"
ELEMENTARY_SECONDARY_SECOND_CHOICE == "Elementary/Secondary Second Choice Entree"
ELEMENTARY_SECONDARY_SIDE_DISH == "Elementary/Secondary Side Dish"
AFTERSCHOOL_SNACK == "Afterschool Snack"
PRESCHOOL_SNACK == "Preschool"
SAC_SNACK == "SAC"
\* FoodCategory.OTHER (OTHER is a reserved word)
CATEGORY_OTHER == "Other"

\* MealType (models.ts:11-15)
MealTypes == {"breakfast", "lunch", "snack"}

\* StreamingScraper.COLOR_MAPPINGS
COLOR_MAPPINGS ==
    <<"#", "2", "2", "0", "A", "F", "D">> :> MAIN_ENTREE @@
    <<"#", "5", "2", "B", "7", "3", "E">> :> VEGETARIAN_ENTREE @@
    <<"#", "0", "0", "0", "0", "0", "0">> :> ELEMENTARY_SECONDARY_SECOND_CHOICE @@
    <<"#", "E", "F", "E", "0", "1", "3">> :> ELEMENTARY_SECONDARY_SIDE_DISH @@
    <<"#", "B", "C", "0", "9", "4", "5">> :> MAIN_ENTREE @@
    <<"#", "F", "9", "0", "3", "0", "3">> :> AFTERSCHOOL_SNACK @@
    <<"#", "6", "5", "1", "5", "9", "4">> :> PRESCHOOL_SNACK @@
    <<"#", "2", "4", "7", "6", "3", "2">> :> SAC_SNACK

\* a number, or NaN
Num(n) == [isNaN |-> FALSE, n |-> n]
NaN == [isNaN |-> TRUE, n |-> 0]

\* the JavaScript comparisons x > k and x >= k: false when x is NaN
Gt(x, k) == ~x.isNaN /\ x.n > k
Ge(x, k) == ~x.isNaN /\ x.n >= k

\* parseInt(text, 10) on the attribute texts of the model
ParseInt(text) ==
    CASE text = "0"  -> Num(0)
      [] text = "-1" -> Num(-1)
      [] text = "1"  -> Num(1)
      [] text = "2"  -> Num(2)
      [] text = "7"  -> Num(7)
      [] text = "8"  -> Num(8)
      [] text = "10" -> Num(10)
      [] text = "12" -> Num(12)
      [] text = "25" -> Num(25)
      [] text = "31" -> Num(31)
      [] text = "2025" -> Num(2025)
      [] text = "300000" -> Num(300000)
      [] OTHER -> NaN

\* element.getAttribute(name) || fallback: an absent attribute gives null and
\* an empty one gives "", both falsy; NoAttr stands for either
NoAttr == ""
OrElse(attr, fallback) == IF attr = NoAttr THEN fallback ELSE attr

\* the largest time value of a Date, in days (8.64e15 ms); beyond it the
\* Date constructor gives an Invalid Date
MaxDateDays == 100000000

\* an Invalid Date object (its time value is NaN, the object itself is truthy)
InvalidDate == [invalid |-> TRUE]

\* new Date(year, monthIndex, day): years 0..99 mean 1900..1999, months
\* outside 0..11 and days outside the month roll over, and a date beyond the
\* range of time values is an Invalid Date; nothing is thrown
NewDate(year, monthIndex, day) ==
    LET fullYear == IF year >= 0 /\ year <= 99 THEN 1900 + year ELSE year
        y == fullYear + (monthIndex \div 12)
        m == monthIndex % 12
        t == DaysFromCivil(y, m + 1, 1) + day - 1
    IN  IF t > MaxDateDays \/ t < -MaxDateDays THEN InvalidDate ELSE [time |-> t]

\* date-fns format throws RangeError("Invalid time value") on an Invalid Date
FormatThrows(date) == date = InvalidDate

\* the end of the longest run of whitespace of str that starts at position i
\* (the position after it)
RECURSIVE SkipSpaces(_, _)
SkipSpaces(str, i) ==
    IF i <= Len(str) /\ IsSpace(str[i]) THEN SkipSpaces(str, i + 1) ELSE i

\* the end of the longest run of characters other than ";" that starts at
\* position i (the position after it)
RECURSIVE SkipToSemicolon(_, _)
SkipToSemicolon(str, i) ==
    IF i <= Len(str) /\ str[i] /= ";" THEN SkipToSemicolon(str, i + 1) ELSE i

\* where the group ([^;]+) of /background:\s*([^;]+)/ starts when
\* "background:" is matched at position i, 0 when the expression does not
\* match there: after the whitespace, or on its last character when the
\* whitespace is followed by ";" or by the end of the text
GroupStartAt(str, i) ==
    LET p == i + Len(R_Background)
        r == SkipSpaces(str, p)
    IN  IF ~OccursAt(str, R_Background, i) THEN 0
        ELSE IF r <= Len(str) /\ str[r] /= ";" THEN r
        ELSE IF r > p THEN r - 1
        ELSE 0

\* style.match(/background:\s*([^;]+)/), then colorMatch[1].trim(): the
\* captured text of the leftmost match, or NULL when the style does not match
BackgroundOf(style) ==
    IF \E i \in 1..Len(style) : GroupStartAt(style, i) > 0
    THEN LET first == CHOOSE i \in 1..Len(style) :
                         /\ GroupStartAt(style, i) > 0
                         /\ \A j \in 1..(i - 1) : GroupStartAt(style, j) = 0
             start == GroupStartAt(style, first)
         IN  [text |-> Trim(SubSeq(style, start, SkipToSemicolon(style, start) - 1))]
    ELSE NULL

\* CategoryOf with Main Entree for a colour that is not in the table
CategoryOf_MainForUnknown(color) ==
    IF color \in DOMAIN COLOR_MAPPINGS THEN COLOR_MAPPINGS[color] ELSE MAIN_ENTREE

\* COLOR_MAPPINGS[color] || FoodCategory.OTHER
CategoryOf(color) ==
    IF color \in DOMAIN COLOR_MAPPINGS THEN COLOR_MAPPINGS[color] ELSE CATEGORY_OTHER

\* title.replace(/&amp;/g, "&").replace(/&#39;/g, "'").replace(/&quot;/g, '"')
DecodeEntities(title) ==
    ReplaceAll(ReplaceAll(ReplaceAll(title, E_Amp, <<"&">>), E_Apos, <<"'">>),
               E_Quot, <<"\"">>)

\* parseMenuItemText (part_000:202-211, part_001:145-164)
ParseMenuItemText(text) ==
    LET cleanText == ReplaceAll(ReplaceAll(text, E_Amp, <<"&">>), E_Apos, <<"'">>)
        parts == SplitWith(cleanText)
    IN  IF parts.split
        THEN [name |-> Trim(parts.head), description |-> cleanText]
        ELSE [name |-> cleanText, description |-> cleanText]

\* the administrative-announcement test of part_000:314-322 (seven patterns)
IsAdminAnnouncement(title) ==
    LET lowerTitle == ToLowerCase(title)
    IN  \/ Includes(lowerTitle, P_NoSchool)
        \/ Includes(lowerTitle, P_WinterBreak)
        \/ Includes(lowerTitle, P_LastDayOfSchool)
        \/ Includes(lowerTitle, P_MemorialDay)
        \/ Includes(lowerTitle, P_Teacher)
        \/ Includes(lowerTitle, P_SpringBreak)
        \/ Includes(lowerTitle, P_QuarterEnds)

\* the administrative-announcement test of ScraperState.setMenuItemTitle
\* (part_001:109-116, six patterns)
IsAdminAnnouncementSS(title) ==
    LET lowerTitle == ToLowerCase(title)
    IN  \/ Includes(lowerTitle, P_NoSchool)
        \/ Includes(lowerTitle, P_WinterBreak)
        \/ Includes(lowerTitle, P_LastDayOfSchool)
        \/ Includes(lowerTitle, P_MemorialDay)
        \/ Includes(lowerTitle, P_Teacher)
        \/ Includes(lowerTitle, P_SpringBreak)

\* a null where the code may also hold a string
NullString == <<"null">>

\* new MenuItem(data) (models.ts:59-79): a field that data lacks gets its
\* default, and isVegan and isVegetarian are inferred from the name when data
\* does not give them (the parsers give neither).  from* are the model's
\* record of where the item came from (see the parse state below).
MenuItem(data) ==
    LET nameLower == ToLowerCase(data.name)
        isVegan == Opt(data, "isVegan",
                       \/ Includes(nameLower, V_Vegan)
                       \/ Includes(nameLower, V_PlantForward)
                       \/ Includes(nameLower, V_PlantBased))
        isVegetarian == Opt(data, "isVegetarian",
                            \/ isVegan
                            \/ Includes(nameLower, V_Vegetarian)
                            \/ Includes(nameLower, V_Veggie)
                            \/ Includes(nameLower, V_Tofu)
                            \/ Includes(nameLower, V_Bean)
                            \/ Includes(nameLower, V_Lentil))
    IN  [name |-> data.name,
         description |-> Opt(data, "description", NullString),
         category |-> Opt(data, "category", CATEGORY_OTHER),
         allergens |-> Opt(data, "allergens", <<>>),
         nutritionalInfo |-> Opt(data, "nutritionalInfo", <<>>),
         isVegetarian |-> isVegetarian,
         isVegan |-> isVegan,
         fromBox |-> Opt(data, "fromBox", 0),
         fromAdmin |-> Opt(data, "fromAdmin", FALSE)]

\* new DailyMenu(data) (models.ts:115-123)
DailyMenu(data) ==
    [date |-> ParseISO(data.date),
     mealType |-> data.mealType,
     menuItems |-> Opt(data, "menuItems", <<>>),
     specialNotes |-> Opt(data, "specialNotes", <<>>),
     isSchoolDay |-> Opt(data, "isSchoolDay", TRUE),
     fromBox |-> Opt(data, "fromBox", 0),
     dateFromBox |-> Opt(data, "dateFromBox", 0)]

\* the fresh MenuItemData both parsers start an item with; box is the number
\* of the day-box element the item container lies in
FreshMenuItem(box) ==
    [name |-> <<>>, description |-> <<>>, category |-> CATEGORY_OTHER,
     allergens |-> <<>>, nutritionalInfo |-> <<>>,
     fromBox |-> box, fromAdmin |-> FALSE]

\* seq.map(f)
Map(seq, f(_)) == [i \in 1..Len(seq) |-> f(seq[i])]

(***************************************************************************)
(* The parse state.  Besides the fields of the code, a day box records the *)
(* number of the day-box element that opened it (fromBox) and of the one   *)
(* in which its date was set (dateFromBox, 0 if none), and an item the     *)
(* number of the day-box element its container lies in (fromBox) and       *)
(* whether a title of its container was an announcement (fromAdmin).  The  *)
(* code never reads these; the claims do.                                  *)
(***************************************************************************)

\* the announcement list of the specification (its section 4.3)
AnnouncementPatterns ==
    {P_NoSchool, P_WinterBreak, P_LastDayOfSchool, P_MemorialDay, P_Teacher,
     P_SpringBreak, P_QuarterEnds}

IsAnnouncement(title) ==
    \E pattern \in AnnouncementPatterns : Includes(ToLowerCase(title), pattern)

\* the number of the day-box element being read
CurrentBox == Len(doc.boxes)

(***************************************************************************)
(* parseCalendarFragment with the closure state object (part_000:191-361)  *)
(***************************************************************************)

\* part_000:218-227 and 339-346: the pending named item is pushed to the open
\* day box, and the day box is saved if it has a date and an item
CompleteDayBox(st, boxes) ==
    IF st.currentDayBox /= NULL
    THEN LET items == IF st.currentMenuItem /= NULL /\ st.currentMenuItem.name /= <<>>
                      THEN Append(st.currentDayBox.menuItems, st.currentMenuItem)
                      ELSE st.currentDayBox.menuItems
             box == [st.currentDayBox EXCEPT !.menuItems = items]
         IN  [box |-> box,
              dayBoxes |-> IF box.date /= NULL /\ Len(items) > 0
                           THEN Append(boxes, box) ELSE boxes]
    ELSE [box |-> NULL, dayBoxes |-> boxes]

\* OpenDayBox without the weekend test of part_000:230-235
OpenDayBox_NoWeekendTest(classNames, box) ==
    IF "fsStateHasEvents" \in classNames
    THEN [currentDayBox |-> [date |-> NULL, menuItems |-> <<>>,
                             fromBox |-> box, dateFromBox |-> 0],
          currentMenuItem |-> NULL]
    ELSE [currentDayBox |-> NULL, currentMenuItem |-> NULL]

\* part_000:229-246: the state after the div.fsCalendarDaybox handler
OpenDayBox(classNames, box) ==
    IF "fsCalendarWeekendDayBox" \in classNames
    THEN [currentDayBox |-> NULL, currentMenuItem |-> NULL]
    ELSE IF "fsStateHasEvents" \in classNames
         THEN [currentDayBox |-> [date |-> NULL, menuItems |-> <<>>,
                                  fromBox |-> box, dateFromBox |-> 0],
               currentMenuItem |-> NULL]
         ELSE [currentDayBox |-> NULL, currentMenuItem |-> NULL]

\* part_000:249-268: the div.fsCalendarDate handler
ClosureDate(st, attrs, box) ==
    LET day   == ParseInt(OrElse(attrs.day, "0"))
        month == ParseInt(OrElse(attrs.month, "0"))
        year  == ParseInt(OrElse(attrs.year, "0"))
        adjustedMonth == IF Ge(month, 0) THEN month.n + 1 ELSE 0
    IN  IF Gt(day, 0) /\ adjustedMonth > 0 /\ Gt(year, 0) /\ st.currentDayBox /= NULL
        THEN [st EXCEPT !.currentDayBox.date = NewDate(year.n, adjustedMonth - 1, day.n),
                        !.currentDayBox.dateFromBox = box]
        ELSE st

\* part_000:269-287: the div.fsCalendarInfo handler
ClosureInfo(st, box) ==
    LET pushed == IF /\ st.currentMenuItem /= NULL
                     /\ st.currentMenuItem.name /= <<>>
                     /\ st.currentDayBox /= NULL
                  THEN [st EXCEPT !.currentDayBox.menuItems =
                                      Append(@, st.currentMenuItem)]
                  ELSE st
    IN  IF pushed.currentDayBox /= NULL
        THEN [pushed EXCEPT !.currentMenuItem = FreshMenuItem(box)]
        ELSE pushed

\* variant: a colour icon seen with no item open opens one
ClosureColorIcon_OpensItem(st, styleAttr) ==
    LET colorMatch == BackgroundOf(styleAttr)
        opened == IF st.currentMenuItem /= NULL THEN st
                  ELSE [st EXCEPT !.currentMenuItem = FreshMenuItem(0)]
    IN  IF colorMatch /= NULL
        THEN [opened EXCEPT !.currentMenuItem.category =
                                CategoryOf(ToUpperCase(colorMatch.text))]
        ELSE st

\* part_000:288-301: the span.fsElementEventColorIcon handler
ClosureColorIcon(st, styleAttr) ==
    IF st.currentMenuItem /= NULL
    THEN LET style == styleAttr
             colorMatch == BackgroundOf(style)
         IN  IF colorMatch /= NULL
             THEN [st EXCEPT !.currentMenuItem.category =
                                 CategoryOf(ToUpperCase(colorMatch.text))]
             ELSE st
    ELSE st

\* part_000:302-332: the a.fsCalendarEventTitle handler
ClosureEventTitle(st, titleAttr) ==
    IF st.currentMenuItem /= NULL
    THEN LET trimmed == Trim(titleAttr)
         IN  IF trimmed /= <<>>
             THEN LET title == DecodeEntities(trimmed)
                      seen == [st EXCEPT !.currentMenuItem.fromAdmin =
                                             @ \/ IsAnnouncement(title)]
                  IN  IF ~IsAdminAnnouncement(title)
                      THEN LET parsed == ParseMenuItemText(title)
                           IN  [seen EXCEPT
                                  !.currentMenuItem.name = parsed.name,
                                  !.currentMenuItem.description = parsed.description]
                      ELSE seen
             ELSE st
    ELSE st

\* part_000:348-358: the conversion of the day boxes; format throws on a
\* day box whose date is an Invalid Date, and the parse rejects
ConversionThrows(boxes) ==
    \E i \in 1..Len(boxes) :
        boxes[i].date /= NULL /\ Len(boxes[i].menuItems) > 0
            /\ FormatThrows(boxes[i].date)

ToDailyMenu(dayBox, type) ==
    DailyMenu([date |-> Format(dayBox.date.time),
               mealType |-> type,
               menuItems |-> Map(dayBox.menuItems, MenuItem),
               fromBox |-> dayBox.fromBox,
               dateFromBox |-> dayBox.dateFromBox])

RECURSIVE ConvertDayBoxes(_, _)
ConvertDayBoxes(boxes, type) ==
    IF boxes = <<>> THEN <<>>
    ELSE IF Head(boxes).date /= NULL /\ Len(Head(boxes).menuItems) > 0
         THEN <<ToDailyMenu(Head(boxes), type)>> \o ConvertDayBoxes(Tail(boxes), type)
         ELSE ConvertDayBoxes(Tail(boxes), type)

(***************************************************************************)
(* ScraperState (part_001:22-165); ss is the instance                      *)
(***************************************************************************)

\* ScraperState.completePreviousDayBox
CompletePreviousDayBox(ss) ==
    IF ss.currentDayBox /= NULL
    THEN IF ss.currentDayBox.date /= NULL /\ Len(ss.currentDayBox.menuItems) > 0
         THEN [ss EXCEPT !.completedDays = Append(@,
                  DailyMenu([date |-> ss.currentDayBox.date,
                             mealType |-> ss.currentDayBox.mealType,
                             menuItems |-> Map(ss.currentDayBox.menuItems, MenuItem),
                             fromBox |-> ss.currentDayBox.fromBox,
                             dateFromBox |-> ss.currentDayBox.dateFromBox]))]
         ELSE ss
    ELSE ss

\* ScraperState.startDayBox
StartDayBox(ss, box) ==
    [CompletePreviousDayBox(ss) EXCEPT
        !.currentDayBox = [date |-> NULL, mealType |-> ss.mealType, menuItems |-> <<>>,
                           fromBox |-> box, dateFromBox |-> 0]]

\* ScraperState.endDayBox
EndDayBox(ss) ==
    [CompletePreviousDayBox(ss) EXCEPT !.currentDayBox = NULL]

\* ScraperState.setDateInfo, called inside the handler's try: a format that
\* throws is caught there and leaves the day box as it was
SetDateInfo(ss, date, box) ==
    IF ss.currentDayBox /= NULL /\ ~FormatThrows(date)
    THEN [ss EXCEPT !.currentDayBox.date = Format(date.time),
                    !.currentDayBox.dateFromBox = box]
    ELSE ss

\* ScraperState.completePreviousMenuItem
CompletePreviousMenuItem(ss) ==
    IF ss.currentMenuItem /= NULL /\ ss.currentDayBox /= NULL
          /\ ss.currentMenuItem.name /= <<>>
    THEN [ss EXCEPT !.currentDayBox.menuItems = Append(@,
             [ss.currentMenuItem EXCEPT
                 !.description = IF @ /= <<>> THEN @ ELSE ss.currentMenuItem.name])]
    ELSE ss

\* ScraperState.startMenuItem
StartMenuItem(ss, box) ==
    [CompletePreviousMenuItem(ss) EXCEPT !.currentMenuItem = FreshMenuItem(box)]

\* ScraperState.endMenuItem
EndMenuItem(ss) ==
    [CompletePreviousMenuItem(ss) EXCEPT !.currentMenuItem = NULL]

\* ScraperState.setMenuItemCategory
SetMenuItemCategory(ss, category) ==
    IF ss.currentMenuItem /= NULL
    THEN [ss EXCEPT !.currentMenuItem.category = category]
    ELSE ss

\* ScraperState.setMenuItemTitle
SetMenuItemTitle(ss, title) ==
    IF ss.currentMenuItem /= NULL
    THEN IF IsAdminAnnouncementSS(title)
         THEN [ss EXCEPT !.currentMenuItem = NULL]
         ELSE LET parsed == ParseMenuItemText(title)
              IN  [ss EXCEPT !.currentMenuItem.name = parsed.name,
                             !.currentMenuItem.description = parsed.description,
                             !.currentMenuItem.fromAdmin = @ \/ IsAnnouncement(title)]
    ELSE ss

(***************************************************************************)
(* parseCalendarFragment with ScraperState (part_001:277-357)              *)
(***************************************************************************)

\* part_001:282-293: the div.fsCalendarDaybox handler
ScraperDaybox(ss, classNames, box) ==
    IF "fsCalendarWeekendDayBox" \in classNames THEN ss ELSE StartDayBox(ss, box)

\* part_001:294-313: the div.fsCalendarDate handler
ScraperDate(ss, attrs, box) ==
    LET day   == ParseInt(OrElse(attrs.day, "0"))
        month == ParseInt(OrElse(attrs.month, "0"))
        year  == ParseInt(OrElse(attrs.year, "0"))
        adjustedMonth == IF Ge(month, 0) THEN month.n + 1 ELSE 0
    IN  IF Gt(day, 0) /\ adjustedMonth > 0 /\ Gt(year, 0)
        THEN SetDateInfo(ss, NewDate(year.n, adjustedMonth - 1, day.n), box)
        ELSE ss

\* part_001:319-330: the span.fsElementEventColorIcon handler
ScraperColorIcon(ss, styleAttr) ==
    LET style == styleAttr
        colorMatch == BackgroundOf(style)
    IN  IF colorMatch /= NULL
        THEN SetMenuItemCategory(ss, CategoryOf(ToUpperCase(colorMatch.text)))
        ELSE ss

\* part_001:331-343: the a.fsCalendarEventTitle handler
ScraperEventTitle(ss, titleAttr) ==
    LET trimmed == Trim(titleAttr)
    IN  IF trimmed /= <<>> THEN SetMenuItemTitle(ss, DecodeEntities(trimmed)) ELSE ss

(***************************************************************************)
(* SpecParse: the elements of one fragment arrive in document order and    *)
(* each is handed to the handler of the version that runs; then the stream *)
(* ends.                                                                   *)
(***************************************************************************)

\* the two versions of parseCalendarFragment
Versions == {"closure", "ScraperState"}

\* bounds: day-box elements and item containers of a fragment
MaxBoxes == 2
MaxInfos == 2

\* the mealType argument of the parse
RequestedMealTypes == {"breakfast", "lunch"}

\* the class attribute of a div.fsCalendarDaybox element (besides fsCalendarDaybox)
DayboxClasses == SUBSET {"fsCalendarWeekendDayBox", "fsStateHasEvents"}

\* the data-day / data-month / data-year attributes of a div.fsCalendarDate
DateAttrs ==
    { [day |-> "7",  month |-> "2", year |-> "2025"],      \* Friday 2025-03-07
      [day |-> "8",  month |-> "2", year |-> "2025"],      \* Saturday 2025-03-08
      [day |-> "0",  month |-> "2", year |-> "2025"],      \* day 0
      [day |-> "31", month |-> "1", year |-> "2025"],      \* no 31st in February
      [day |-> "7",  month |-> "2", year |-> "300000"] }   \* beyond the Date range

\* the style attribute of a span.fsElementEventColorIcon (<<>>: absent or
\* empty, getAttribute("style") || "")
StyleAttrs == {<<"b", "a", "c", "k", "g", "r", "o", "u", "n", "d", ":", "#", "b", "c", "0", "9", "4", "5">>,
               <<"b", "a", "c", "k", "g", "r", "o", "u", "n", "d", ":", " ", "#", "1", "2", "3", "4", "5", "6", ";">>,
               <<>>}

\* the title attribute of an a.fsCalendarEventTitle (<<>>: absent or empty)
TitleAttrs == {T_Pizza, T_NoSchool, T_QuarterEnds, <<>>}

InitParse ==
    /\ version \in Versions
    /\ mealType \in RequestedMealTypes
    /\ state = [currentDayBox |-> NULL, currentMenuItem |-> NULL]
    /\ dayBoxes = <<>>
    /\ dailyMenus = <<>>
    /\ threw = FALSE
    /\ scraperState = [mealType |-> mealType, currentDayBox |-> NULL,
                       currentMenuItem |-> NULL, completedDays |-> <<>>]
    /\ doc = [boxes |-> <<>>, infos |-> 0]
    /\ ppc = "parsing"
    /\ NoIndex
    /\ NoFetch
    /\ NoMenu
    /\ NoRest

\* a div.fsCalendarDaybox element
DayboxElement(classNames) ==
    /\ ppc = "parsing"
    /\ Len(doc.boxes) < MaxBoxes
    /\ doc' = [doc EXCEPT !.boxes = Append(@, [classNames |-> classNames, infos |-> 0])]
    /\ IF version = "closure"
       THEN /\ dayBoxes' = CompleteDayBox(state, dayBoxes).dayBoxes
            /\ state' = OpenDayBox(classNames, Len(doc.boxes) + 1)
            /\ UNCHANGED scraperState
       ELSE /\ scraperState' = ScraperDaybox(scraperState, classNames, Len(doc.boxes) + 1)
            /\ UNCHANGED <<state, dayBoxes>>
    /\ UNCHANGED <<version, mealType, dailyMenus, threw, ppc, indexVars, fetchVars, menuVars, restVars>>

\* a div.fsCalendarDate element
DateElement(attrs) ==
    /\ ppc = "parsing"
    /\ IF version = "closure"
       THEN state' = ClosureDate(state, attrs, CurrentBox) /\ UNCHANGED scraperState
       ELSE scraperState' = ScraperDate(scraperState, attrs, CurrentBox) /\ UNCHANGED state
    /\ UNCHANGED <<version, mealType, dayBoxes, dailyMenus, threw, doc, ppc, indexVars, fetchVars, menuVars, restVars>>

\* a div.fsCalendarInfo element
InfoElement ==
    /\ ppc = "parsing"
    /\ doc.infos < MaxInfos
    /\ doc' = IF CurrentBox > 0
              THEN [doc EXCEPT !.infos = @ + 1, !.boxes[CurrentBox].infos = @ + 1]
              ELSE [doc EXCEPT !.infos = @ + 1]
    /\ IF version = "closure"
       THEN state' = ClosureInfo(state, CurrentBox) /\ UNCHANGED scraperState
       ELSE scraperState' = StartMenuItem(scraperState, CurrentBox) /\ UNCHANGED state
    /\ UNCHANGED <<version, mealType, dayBoxes, dailyMenus, threw, ppc, indexVars, fetchVars, menuVars, restVars>>

\* a span.fsElementEventColorIcon element
ColorIconElement(styleAttr) ==
    /\ ppc = "parsing"
    /\ IF version = "closure"
       THEN state' = ClosureColorIcon(state, styleAttr) /\ UNCHANGED scraperState
       ELSE scraperState' = ScraperColorIcon(scraperState, styleAttr) /\ UNCHANGED state
    /\ UNCHANGED <<version, mealType, dayBoxes, dailyMenus, threw, doc, ppc, indexVars, fetchVars, menuVars, restVars>>

\* an a.fsCalendarEventTitle element
EventTitleElement(titleAttr) ==
    /\ ppc = "parsing"
    /\ IF version = "closure"
       THEN state' = ClosureEventTitle(state, titleAttr) /\ UNCHANGED scraperState
       ELSE scraperState' = ScraperEventTitle(scraperState, titleAttr) /\ UNCHANGED state
    /\ UNCHANGED <<version, mealType, dayBoxes, dailyMenus, threw, doc, ppc, indexVars, fetchVars, menuVars, restVars>>

\* the end of the stream: part_000:338-360 and part_001:351-356
EndOfStream ==
    /\ ppc = "parsing"
    /\ ppc' = "done"
    /\ IF version = "closure"
       THEN LET final == CompleteDayBox(state, dayBoxes)
            IN  /\ state' = [state EXCEPT !.currentDayBox = final.box]
                /\ dayBoxes' = final.dayBoxes
                /\ threw' = ConversionThrows(final.dayBoxes)
                /\ dailyMenus' = IF ConversionThrows(final.dayBoxes) THEN <<>>
                                 ELSE ConvertDayBoxes(final.dayBoxes, mealType)
                /\ UNCHANGED scraperState
       ELSE /\ scraperState' = EndDayBox(EndMenuItem(scraperState))
            /\ UNCHANGED <<state, dayBoxes, dailyMenus, threw>>
    /\ UNCHANGED <<version, mealType, doc, indexVars, fetchVars, menuVars, restVars>>

NextParse ==
    \/ \E classNames \in DayboxClasses : DayboxElement(classNames)
    \/ \E attrs \in DateAttrs : DateElement(attrs)
    \/ InfoElement
    \/ \E styleAttr \in StyleAttrs : ColorIconElement(styleAttr)
    \/ \E titleAttr \in TitleAttrs : EventTitleElement(titleAttr)
    \/ EndOfStream

SpecParse == InitParse /\ [][NextParse]_vars

\* what the parse resolves to: part_000:360 returns dailyMenus, part_001:356
\* returns the ScraperState's completed days
Output == IF version = "closure" THEN dailyMenus ELSE scraperState.completedDays

(***************************************************************************)
(* Claims about the parsers                                                *)
(***************************************************************************)

IsWeekendBox(b) == b > 0 /\ "fsCalendarWeekendDayBox" \in doc.boxes[b].classNames

Skips(classNames) ==
    "fsCalendarWeekendDayBox" \in classNames \/ "fsStateHasEvents" \notin classNames

IsSkippedBox(b) == b > 0 /\ Skips(doc.boxes[b].classNames)

\* the step is a day-box element
IsDayboxStep == Len(doc'.boxes) = Len(doc.boxes) + 1

\* the step is a date, item-info, colour or title element
IsInnerStep == ppc = "parsing" /\ ppc' = "parsing" /\ Len(doc'.boxes) = Len(doc.boxes)

\* C4: ScraperState version: a weekend day box contributes nothing to the
\* output: no DailyMenu of the output has its date from a date element of a
\* weekend box, or an item from an item container of a weekend box.
C4_WeekendBoxContributesNothing ==
    (version = "ScraperState" /\ ppc = "done") =>
        \A i \in 1..Len(Output) :
            /\ ~IsWeekendBox(Output[i].dateFromBox)
            /\ \A j \in 1..Len(Output[i].menuItems) :
                   ~IsWeekendBox(Output[i].menuItems[j].fromBox)

\* the day boxes after the previously open day is completed: the pending
\* named item first, then the day if it is dated and non-empty
C5_Completed ==
    IF state.currentDayBox = NULL THEN dayBoxes
    ELSE LET pending == state.currentMenuItem /= NULL /\ state.currentMenuItem.name /= <<>>
             items == IF pending
                      THEN state.currentDayBox.menuItems \o <<state.currentMenuItem>>
                      ELSE state.currentDayBox.menuItems
         IN  IF state.currentDayBox.date /= NULL /\ items /= <<>>
             THEN dayBoxes \o <<[state.currentDayBox EXCEPT !.menuItems = items]>>
             ELSE dayBoxes

\* C5: closure version: a day-box element with the weekend marker, or without
\* the has-events marker, completes the previously open day and leaves no day
\* and no item open; every date, item-info, colour and title element up to
\* the next day-box element leaves the state and the day boxes unchanged; and
\* no DailyMenu of the output comes from such a box.
C5_SkippedBoxContributesNothing ==
    [][version = "closure" =>
         /\ (IsDayboxStep /\ Skips(doc'.boxes[Len(doc'.boxes)].classNames)) =>
                /\ dayBoxes' = C5_Completed
                /\ state'.currentDayBox = NULL
                /\ state'.currentMenuItem = NULL
         /\ (IsInnerStep /\ IsSkippedBox(CurrentBox)) =>
                /\ state' = state
                /\ dayBoxes' = dayBoxes
         /\ (ppc' = "done" /\ ~threw') =>
                \A i \in 1..Len(dailyMenus') :
                    /\ ~IsSkippedBox(dailyMenus'[i].fromBox)
                    /\ ~IsSkippedBox(dailyMenus'[i].dateFromBox)
                    /\ \A j \in 1..Len(dailyMenus'[i].menuItems) :
                           ~IsSkippedBox(dailyMenus'[i].menuItems[j].fromBox)
      ]_vars

\* C5 witness: the closure version has read a skipped box after a day with a
\* named item: the day was completed by the skipped box's element, an item
\* container was read inside the skipped box, and the output is that one day
C5_Witness ==
    /\ version = "closure"
    /\ ppc = "done"
    /\ Len(doc.boxes) = 2
    /\ IsSkippedBox(2)
    /\ doc.boxes[2].infos = 1
    /\ Len(dailyMenus) = 1
    /\ dailyMenus[1].fromBox = 1
    /\ Len(dailyMenus[1].menuItems) = 1

\* C6: ScraperState version: a named item opened inside day box N never
\* belongs to the DailyMenu of a later day box.
C6_ItemStaysInItsDay ==
    (version = "ScraperState" /\ ppc = "done") =>
        \A i \in 1..Len(Output) :
            \A j \in 1..Len(Output[i].menuItems) :
                Output[i].menuItems[j].fromBox > 0 =>
                    Output[i].menuItems[j].fromBox >= Output[i].fromBox

\* C7: both versions: the parse returns without raising an error, and every
\* DailyMenu it returns has a resolved date, the requested meal type and at
\* least one MenuItem, each with a non-empty name.
C7_OutputValid ==
    ppc = "done" =>
        /\ ~threw
        /\ \A i \in 1..Len(Output) :
               /\ Output[i].date \in Int
               /\ Output[i].mealType = mealType
               /\ Len(Output[i].menuItems) >= 1
               /\ \A j \in 1..Len(Output[i].menuItems) :
                      Output[i].menuItems[j].name /= <<>>

\* the day box a version has open, and its date as "yyyy-MM-dd" (NULL while
\* unresolved, InvalidDate for a Date that is no calendar day)
OpenDay == IF version = "closure" THEN state.currentDayBox ELSE scraperState.currentDayBox

OpenDayDate ==
    IF version = "closure"
    THEN IF OpenDay.date = NULL \/ OpenDay.date = InvalidDate THEN OpenDay.date
         ELSE Format(OpenDay.date.time)
    ELSE OpenDay.date

\* C8: both versions, with a day open: a date element with data-day d > 0,
\* data-month m >= 0 and data-year y > 0 resolves the day's date to day d of
\* month m + 1 of year y; one with day 0 or year 0 leaves the date as it was.
C8_DateResolved ==
    [][\A attrs \in DateAttrs :
          (DateElement(attrs) /\ OpenDay /= NULL) =>
              LET d == ParseInt(attrs.day)
                  m == ParseInt(attrs.month)
                  y == ParseInt(attrs.year)
              IN  /\ (Gt(d, 0) /\ Ge(m, 0) /\ Gt(y, 0)) =>
                         OpenDayDate' = Iso(y.n, m.n + 1, d.n)
                  /\ (d = Num(0) \/ y = Num(0)) => OpenDayDate' = OpenDayDate
      ]_vars

\* C9: closure version: no item of the output comes from an item container
\* in which a title matching an administrative-announcement pattern was read.
C9_AnnouncementNeverInOutput ==
    (version = "closure" /\ ppc = "done") =>
        \A i \in 1..Len(Output) :
            \A j \in 1..Len(Output[i].menuItems) :
                ~Output[i].menuItems[j].fromAdmin

\* the item a version has open
OpenItem == IF version = "closure" THEN state.currentMenuItem ELSE scraperState.currentMenuItem

\* the items of the open day once the open item, if named, is completed into it
OpenDayItems ==
    IF OpenItem /= NULL /\ OpenItem.name /= <<>>
    THEN OpenDay.menuItems \o <<OpenItem>>
    ELSE OpenDay.menuItems

NamesOf(items) == [j \in 1..Len(items) |-> <<items[j].name, items[j].fromBox>>]

\* C10: both versions: when the stream ends with a day open that has a
\* resolved date and at least one named item, the parse returns a sequence
\* whose last DailyMenu is that day with all of its named items, the open
\* one included.
C10_EndOfStreamFlush ==
    [][(ppc = "parsing" /\ ppc' = "done" /\ OpenDay /= NULL) =>
          ((OpenDayDate /= NULL /\ OpenDayDate /= InvalidDate /\ OpenDayItems /= <<>>) =>
               /\ ~threw'
               /\ Len(Output') >= 1
               /\ Output'[Len(Output')].fromBox = OpenDay.fromBox
               /\ Output'[Len(Output')].date = ParseISO(OpenDayDate)
               /\ NamesOf(Output'[Len(Output')].menuItems) = NamesOf(OpenDayItems))
      ]_vars

(***************************************************************************)
(* SpecItem: one item container of a dated day receives colour-icon and    *)
(* title elements, then the stream ends.                                   *)
(***************************************************************************)

\* the style attributes of span.fsElementEventColorIcon: the eight colours of
\* the table as the site writes them, and others
ColorStyleAttrs ==
    { <<"b", "a", "c", "k", "g", "r", "o", "u", "n", "d", ":", "#", "2", "2", "0", "a", "f", "d">>,
      <<"b", "a", "c", "k", "g", "r", "o", "u", "n", "d", ":", " ", "#", "5", "2", "b", "7", "3", "e", ";">>,
      <<"b", "a", "c", "k", "g", "r", "o", "u", "n", "d", ":", "#", "0", "0", "0", "0", "0", "0">>,
      <<"b", "a", "c", "k", "g", "r", "o", "u", "n", "d", ":", "#", "e", "f", "e", "0", "1", "3", ";", " ", "c", "o", "l", "o", "r", ":", "#", "f", "f", "f">>,
      <<"b", "a", "c", "k", "g", "r", "o", "u", "n", "d", ":", "#", "B", "C", "0", "9", "4", "5">>,
      <<"c", "o", "l", "o", "r", ":", "#", "f", "f", "f", ";", " ", "b", "a", "c", "k", "g", "r", "o", "u", "n", "d", ":", " ", " ", "#", "f", "9", "0", "3", "0", "3">>,
      <<"b", "a", "c", "k", "g", "r", "o", "u", "n", "d", ":", "#", "6", "5", "1", "5", "9", "4">>,
      <<"b", "a", "c", "k", "g", "r", "o", "u", "n", "d", ":", "#", "2", "4", "7", "6", "3", "2">>,
      <<"b", "a", "c", "k", "g", "r", "o", "u", "n", "d", ":", "#", "1", "2", "3", "4", "5", "6">>,
      <<"b", "a", "c", "k", "g", "r", "o", "u", "n", "d", ":", "#", "B", "C", "0", "9", "4", "5", " ", "n", "o", "n", "e">>,
      <<"b", "a", "c", "k", "g", "r", "o", "u", "n", "d", "-", "c", "o", "l", "o", "r", ":", "#", "2", "2", "0", "a", "f", "d">>,
      <<"b", "a", "c", "k", "g", "r", "o", "u", "n", "d", ":", " ", ";">>,
      <<>> }

\* the title attributes of a.fsCalendarEventTitle
ItemTitleAttrs ==
    { <<"P", "i", "z", "z", "a">>,
      <<"T", "o", "f", "u", " ", "w", "i", "t", "h", " ", "R", "i", "c", "e">>,
      <<"C", "h", "i", "c", "k", "e", "n", " ", "&", " ", "W", "a", "f", "f", "l", "e", "s", " ", "w", "i", "t", "h", " ", "S", "y", "r", "u", "p">>,
      <<"C", "h", "i", "c", "k", "e", "n", " ", "&", "a", "m", "p", ";", " ", "R", "i", "c", "e", " ", " ", "w", "i", "t", "h", " ", "B", "e", "a", "n", "s", " ", "w", "i", "t", "h", " ", "S", "a", "l", "s", "a">>,
      <<"P", "a", "s", "t", "a", " ", "W", "i", "t", "h", " ", "S", "a", "u", "c", "e">>,
      <<"S", "a", "n", "d", "w", "i", "c", "h", " ", "w", "i", "t", "h", "o", "u", "t", " ", "C", "h", "e", "e", "s", "e">>,
      <<"F", "i", "s", "h", " ", "&", "a", "m", "p", ";", "a", "m", "p", ";", " ", "C", "h", "i", "p", "s">>,
      <<" ", "N", "o", " ", "S", "c", "h", "o", "o", "l", " ">>,
      <<>> }

\* data-day, data-month, data-year of Friday 2025-03-07
FridayAttrs == [day |-> "7", month |-> "2", year |-> "2025"]

\* the state after <div class="fsCalendarDaybox fsStateHasEvents">, the
\* day's div.fsCalendarDate and one div.fsCalendarInfo
InitItem ==
    /\ version \in Versions
    /\ mealType \in RequestedMealTypes
    /\ state = IF version = "closure"
               THEN ClosureInfo(ClosureDate(OpenDayBox({"fsStateHasEvents"}, 1),
                                            FridayAttrs, 1), 1)
               ELSE [currentDayBox |-> NULL, currentMenuItem |-> NULL]
    /\ dayBoxes = <<>>
    /\ dailyMenus = <<>>
    /\ threw = FALSE
    /\ scraperState =
           LET fresh == [mealType |-> mealType, currentDayBox |-> NULL,
                         currentMenuItem |-> NULL, completedDays |-> <<>>]
           IN  IF version = "ScraperState"
               THEN StartMenuItem(ScraperDate(ScraperDaybox(fresh, {"fsStateHasEvents"}, 1),
                                              FridayAttrs, 1), 1)
               ELSE fresh
    /\ doc = [boxes |-> <<[classNames |-> {"fsStateHasEvents"}, infos |-> 1]>>,
              infos |-> 1]
    /\ ppc = "parsing"
    /\ NoIndex
    /\ NoFetch
    /\ NoMenu
    /\ NoRest

NextItem ==
    \/ \E styleAttr \in ColorStyleAttrs : ColorIconElement(styleAttr)
    \/ \E titleAttr \in ItemTitleAttrs : EventTitleElement(titleAttr)
    \/ EndOfStream

SpecItem == InitItem /\ [][NextItem]_vars

(***************************************************************************)
(* Claims about the colour and title of an item                            *)
(***************************************************************************)

\* C11: a colour-icon element sets the category of the open item to the
\* table entry of its uppercased colour text when that text is a key of the
\* table and to Other for every other colour; it changes nothing else of the
\* item or of its day, and the parse does not fail.
C11_ColorLookup ==
    [][\A styleAttr \in ColorStyleAttrs :
          (ColorIconElement(styleAttr) /\ OpenItem /= NULL) =>
              LET colorMatch == BackgroundOf(styleAttr)
                  color == ToUpperCase(colorMatch.text)
                  category == IF colorMatch = NULL THEN OpenItem.category
                              ELSE IF color \in DOMAIN COLOR_MAPPINGS
                                   THEN COLOR_MAPPINGS[color]
                                   ELSE CATEGORY_OTHER
              IN  /\ OpenItem' = [OpenItem EXCEPT !.category = category]
                  /\ OpenDay' = OpenDay
                  /\ ~threw'
      ]_vars

\* C11 witness: the parse returned an item whose category is Vegetarian
\* Entree, the entry of "#52B73E", set from the style "background: #52b73e;"
C11_Witness ==
    /\ ppc = "done"
    /\ ~threw
    /\ Len(Output) = 1
    /\ Len(Output[1].menuItems) = 1
    /\ Output[1].menuItems[1].category = VEGETARIAN_ENTREE

\* whether the separator " with " (whitespace, "with", whitespace) occurs in
\* text with its first whitespace character at position i
C12_SeparatorAt(text, i) ==
    /\ i >= 1
    /\ i + Len(S_With) + 1 <= Len(text)
    /\ IsSpace(text[i])
    /\ OccursAt(text, S_With, i + 1)
    /\ IsSpace(text[i + Len(S_With) + 1])

\* the name the title normalizer is to give: the text before the first
\* separator, trimmed, or the entire text when there is no separator
C12_Name(text) ==
    IF \E i \in 1..Len(text) : C12_SeparatorAt(text, i)
    THEN LET first == CHOOSE i \in 1..Len(text) :
                         /\ C12_SeparatorAt(text, i)
                         /\ \A j \in 1..(i - 1) : ~C12_SeparatorAt(text, j)
         IN  Trim(SubSeq(text, 1, first - 1))
    ELSE text

\* C12: a title element whose decoded title is no announcement gives the
\* open item the name before the first " with ", trimmed (the entire title
\* when there is none), and the entire decoded title, unmodified, as its
\* description.
C12_TitleNormalizer ==
    [][\A titleAttr \in ItemTitleAttrs :
          LET text == DecodeEntities(Trim(titleAttr))
          IN  (/\ EventTitleElement(titleAttr)
               /\ OpenItem /= NULL
               /\ text /= <<>>
               /\ ~IsAnnouncement(text)) =>
                  /\ OpenItem' /= NULL
                  /\ OpenItem'.name = C12_Name(text)
                  /\ OpenItem'.description = text
      ]_vars

(***************************************************************************)
(* The week bucketer: StreamingScraper.groupDailyMenusByWeek, the same in  *)
(* both versions (part_000:366-410, part_001:362-406).                     *)
(***************************************************************************)

\* variant: weeks that start on Sunday (weekStartsOn: 0)
StartOfWeek_Sunday(t) == t - GetDay(t)

\* date-fns startOfWeek(date, {weekStartsOn: 1}): the Monday on or before
StartOfWeek(t) == t - ((GetDay(t) + 6) % 7)

\* date-fns endOfWeek(date, {weekStartsOn: 1}): the Sunday on or after
EndOfWeek(t) == StartOfWeek(t) + 6

\* variant: no two dates are taken to lie in one week
IsSameWeek_Never(a, b) == FALSE

\* date-fns isSameWeek(a, b, {weekStartsOn: 1})
IsSameWeek(a, b) == StartOfWeek(a) = StartOfWeek(b)

\* one step of the stable sort: dailyMenu goes behind every element of the
\* sorted sequence whose date is not later than its own
RECURSIVE InsertByDate(_, _)
InsertByDate(sorted, dailyMenu) ==
    IF sorted = <<>> THEN <<dailyMenu>>
    ELSE IF sorted[Len(sorted)].date - dailyMenu.date <= 0
         THEN Append(sorted, dailyMenu)
         ELSE Append(InsertByDate(SubSeq(sorted, 1, Len(sorted) - 1), dailyMenu),
                     sorted[Len(sorted)])

\* dailyMenus.sort((a, b) => a.date.getTime() - b.date.getTime()):
\* Array.prototype.sort is stable
RECURSIVE SortByDate(_)
SortByDate(menus) ==
    IF menus = <<>> THEN <<>>
    ELSE InsertByDate(SortByDate(SubSeq(menus, 1, Len(menus) - 1)), menus[Len(menus)])

\* the WeeklyMenu pushed for the week that starts on currentWeekStartDate
WeekOf(currentWeekStartDate, currentWeekMenus) ==
    WeeklyMenu([startDate |-> Format(currentWeekStartDate.time),
                endDate |-> Format(EndOfWeek(currentWeekStartDate.time)),
                dailyMenus |-> currentWeekMenus])

\* the for loop over sortedMenus and the push after it; acc is the
\* weeklyMenus array, currentWeekStartDate is null or [time |-> a Date]
RECURSIVE GroupLoop(_, _, _, _)
GroupLoop(sortedMenus, acc, currentWeekMenus, currentWeekStartDate) ==
    IF sortedMenus = <<>>
    THEN IF Len(currentWeekMenus) > 0 /\ currentWeekStartDate /= NULL
         THEN Append(acc, WeekOf(currentWeekStartDate, currentWeekMenus))
         ELSE acc
    ELSE LET dailyMenu == Head(sortedMenus)
             weekStart == StartOfWeek(dailyMenu.date)
         IN  IF \/ currentWeekStartDate = NULL
                \/ ~IsSameWeek(weekStart, currentWeekStartDate.time)
             THEN GroupLoop(Tail(sortedMenus),
                            IF Len(currentWeekMenus) > 0 /\ currentWeekStartDate /= NULL
                            THEN Append(acc, WeekOf(currentWeekStartDate, currentWeekMenus))
                            ELSE acc,
                            <<dailyMenu>>,
                            [time |-> weekStart])
             ELSE GroupLoop(Tail(sortedMenus), acc,
                            Append(currentWeekMenus, dailyMenu),
                            currentWeekStartDate)

\* variant: the bucketer without the sort
GroupDailyMenusByWeek_Unsorted(menus) ==
    IF Len(menus) = 0 THEN <<>>
    ELSE GroupLoop(menus, <<>>, <<>>, NULL)

\* groupDailyMenusByWeek(dailyMenus)
GroupDailyMenusByWeek(menus) ==
    IF Len(menus) = 0 THEN <<>>
    ELSE GroupLoop(SortByDate(menus), <<>>, <<>>, NULL)
(***************************************************************************)
(* SpecFetch: one call of fetchAllMealsForDateAjax (part_000:91-117,       *)
(* part_001:246-272).  It awaits fetchMenuForDateAjax for breakfast, lunch *)
(* and snack in turn; each action below is the continuation that runs when *)
(* one of these settles, and the one for snack runs on to the return.      *)
(***************************************************************************)

\* the meal types in the order of the for loop
FetchOrder == <<"breakfast", "lunch", "snack">>

\* most DailyMenus that one parseCalendarFragment resolves to
MaxDaysPerFetch == 2

\* most DailyMenus that the three fetches put into allDailyMenus
MaxAllMenus == 4

\* the dates of the day boxes in the fetched fragments: Friday 2025-03-07,
\* Sunday 2025-03-09, Monday 2025-03-10 and Monday 2025-03-24
FetchDays == {Iso(2025, 3, 7), Iso(2025, 3, 9), Iso(2025, 3, 10), Iso(2025, 3, 24)}

\* the date lists of the fragments, in document order
FetchDayLists ==
    UNION {[1..n -> FetchDays] : n \in 0..MaxDaysPerFetch}

\* the targetDate arguments: 2025-03-15 and 2025-12-31
FetchDates == {DaysFromCivil(2025, 3, 15), DaysFromCivil(2025, 12, 31)}

\* variant: year and month taken from the first DailyMenu of the list
MonthlyMenuOf_FromContents(date, all) ==
    IF Len(all) = 0 THEN NULL
    ELSE MonthlyMenu([month |-> CivilFromDays(all[1].date)[2],
                      year |-> CivilFromDays(all[1].date)[1],
                      weeklyMenus |-> GroupDailyMenusByWeek(all)])

\* the tail of fetchAllMealsForDateAjax, from the test of
\* allDailyMenus.length to the return
MonthlyMenuOf(date, all) ==
    IF Len(all) = 0 THEN NULL
    ELSE MonthlyMenu([month |-> CivilFromDays(date)[2],
                      year |-> CivilFromDays(date)[1],
                      weeklyMenus |-> GroupDailyMenusByWeek(all)])

\* the continuation of the await in the for loop: dailyMenus is what
\* fetchMenuForDateAjax resolved to (null or [menus |-> a DailyMenu[]])
Fetched(fetchResult) ==
    LET all == IF fetchResult = NULL THEN allDailyMenus
               ELSE allDailyMenus \o fetchResult.menus
    IN  /\ fpc = "fetching"
        /\ fetched' = Append(fetched, fetchResult)
        /\ IF Len(fetched') < Len(FetchOrder)
           THEN /\ allDailyMenus' = all
                /\ UNCHANGED <<monthlyMenu, fpc>>
           ELSE /\ allDailyMenus' = SortByDate(all)
                /\ monthlyMenu' = MonthlyMenuOf(fetchDate, all)
                /\ fpc' = "returned"
        /\ UNCHANGED <<fetchDate, indexVars, parseVars, menuVars, restVars>>

\* fetchMenuForDateAjax caught an error (the fetch threw, or the response
\* was not ok) and returned null
FetchFails ==
    /\ fpc = "fetching"
    /\ Fetched(NULL)

\* the response was ok and parseCalendarFragment resolved to one DailyMenu
\* per date of the list
FetchParses(days) ==
    /\ Len(allDailyMenus) + Len(days) <= MaxAllMenus
    /\ Fetched([menus |-> [i \in 1..Len(days) |->
                    DailyMenu([date |-> days[i],
                               mealType |-> FetchOrder[Len(fetched) + 1],
                               menuItems |-> <<>>])]])

\* the response was ok and parseCalendarFragment rejected: the promise is
\* returned from the try block without await, so the catch does not see the
\* rejection, and the await in fetchAllMealsForDateAjax throws
ParseRejects ==
    /\ fpc = "fetching"
    /\ fpc' = "rejected"
    /\ UNCHANGED <<fetchDate, fetched, allDailyMenus, monthlyMenu,
                   indexVars, parseVars, menuVars, restVars>>

InitFetch ==
    /\ fetchDate \in FetchDates
    /\ fetched = <<>>
    /\ allDailyMenus = <<>>
    /\ monthlyMenu = NULL
    /\ fpc = "fetching"
    /\ NoIndex /\ NoParse /\ NoMenu /\ NoRest

NextFetch ==
    \/ FetchFails
    \/ \E days \in FetchDayLists : FetchParses(days)
    \/ ParseRejects

SpecFetch == InitFetch /\ [][NextFetch]_vars
(***************************************************************************)
(* Claims about the week bucketer, checked on SpecFetch.                   *)
(***************************************************************************)

\* the concatenation of the sequences of a sequence
RECURSIVE Flatten(_)
Flatten(seqs) == IF seqs = <<>> THEN <<>> ELSE Head(seqs) \o Flatten(Tail(seqs))

\* how often each element occurs in a sequence
BagOf(seq) ==
    [x \in {seq[i] : i \in DOMAIN seq} |-> Cardinality({i \in DOMAIN seq : seq[i] = x})]

\* the array handed to groupDailyMenusByWeek: what the fetches resolved to,
\* in fetch order
BucketerInput ==
    Flatten([i \in 1..Len(fetched) |->
                IF fetched[i] = NULL THEN <<>> ELSE fetched[i].menus])

\* the DailyMenu arrays of a WeeklyMenu[]
WeekMembers(weeks) == [k \in 1..Len(weeks) |-> weeks[k].dailyMenus]

\* C13: groupDailyMenusByWeek is order-independent and idempotent: every
\* ordering of the DailyMenus that the fetches returned gives WeeklyMenus
\* with the same (startDate, endDate) pairs in the same order and the same
\* DailyMenus in each week as the ordering the call was given, and bucketing
\* the flattened weeks of the returned MonthlyMenu again gives the same weeks.
C13_OrderIndependentIdempotent ==
    (fpc = "returned" /\ monthlyMenu /= NULL) =>
        LET input == BucketerInput
            weeks == monthlyMenu.weeklyMenus
        IN  /\ \A p \in Permutations(1..Len(input)) :
                   LET other == GroupDailyMenusByWeek([i \in 1..Len(input) |-> input[p[i]]])
                   IN  /\ Len(other) = Len(weeks)
                       /\ \A k \in 1..Len(weeks) :
                              /\ other[k].startDate = weeks[k].startDate
                              /\ other[k].endDate = weeks[k].endDate
                              /\ BagOf(other[k].dailyMenus) = BagOf(weeks[k].dailyMenus)
            /\ GroupDailyMenusByWeek(Flatten(WeekMembers(weeks))) = weeks

\* C13 witness: the call returned after bucketing four DailyMenus that
\* arrived out of date order, into two or more weeks of which one holds
\* two or more DailyMenus
C13_Witness ==
    /\ fpc = "returned" /\ monthlyMenu /= NULL
    /\ Len(BucketerInput) = 4
    /\ \E i \in 1..3 : BucketerInput[i].date > BucketerInput[i + 1].date
    /\ Len(monthlyMenu.weeklyMenus) >= 2
    /\ \E k \in 1..Len(monthlyMenu.weeklyMenus) :
           Len(monthlyMenu.weeklyMenus[k].dailyMenus) >= 2
\* the Monday of the week of a date, from the calendar alone
MondayOf(t) == CHOOSE d \in (t - 6)..t : GetDay(d) = 1

\* C14: groupDailyMenusByWeek produces exactly one WeeklyMenu per distinct
\* Monday-aligned week present in the input, in strictly ascending startDate
\* order; no WeeklyMenu has no DailyMenu, no week absent from the input gets
\* a WeeklyMenu, and empty input gives the empty list.
C14_OneWeekPerInputWeek ==
    fpc = "returned" =>
        LET input == BucketerInput
            weeks == GroupDailyMenusByWeek(input)
            mondays == {MondayOf(input[i].date) : i \in 1..Len(input)}
        IN  /\ monthlyMenu /= NULL => monthlyMenu.weeklyMenus = weeks
            /\ input = <<>> => weeks = <<>>
            /\ Len(weeks) = Cardinality(mondays)
            /\ {weeks[k].startDate : k \in 1..Len(weeks)} = mondays
            /\ \A k \in 1..Len(weeks) : Len(weeks[k].dailyMenus) > 0
            /\ \A k \in 1..(Len(weeks) - 1) : weeks[k].startDate < weeks[k + 1].startDate

\* C14 witness: the call returned two WeeklyMenus, for the weeks of
\* 2025-03-03 and 2025-03-24 with the weeks between them absent, the first
\* holding a Friday and a Sunday that arrived after a later Monday
C14_Witness ==
    /\ fpc = "returned" /\ monthlyMenu /= NULL
    /\ Len(monthlyMenu.weeklyMenus) = 2
    /\ monthlyMenu.weeklyMenus[1].startDate = DaysFromCivil(2025, 3, 3)
    /\ monthlyMenu.weeklyMenus[2].startDate = DaysFromCivil(2025, 3, 24)
    /\ Len(monthlyMenu.weeklyMenus[1].dailyMenus) >= 2
    /\ BucketerInput[1].date = DaysFromCivil(2025, 3, 24)

\* C15: every WeeklyMenu produced by groupDailyMenusByWeek starts on a
\* Monday and ends six days later, every DailyMenu in it has a date from
\* startDate to endDate, and every input DailyMenu is in exactly one
\* WeeklyMenu (the weeks together hold each input DailyMenu as often as the
\* input does).
C15_WeekWindow ==
    (fpc = "returned" /\ monthlyMenu /= NULL) =>
        LET weeks == monthlyMenu.weeklyMenus
        IN  /\ \A k \in 1..Len(weeks) :
                   /\ GetDay(weeks[k].startDate) = 1
                   /\ weeks[k].endDate = weeks[k].startDate + 6
                   /\ \A i \in 1..Len(weeks[k].dailyMenus) :
                          /\ weeks[k].startDate <= weeks[k].dailyMenus[i].date
                          /\ weeks[k].dailyMenus[i].date <= weeks[k].endDate
            /\ BagOf(Flatten(WeekMembers(weeks))) = BagOf(BucketerInput)

\* C15 witness: the call returned a week that holds the Sunday 2025-03-09,
\* its last day, and another week that holds the Monday 2025-03-10, its
\* first day
C15_Witness ==
    /\ fpc = "returned" /\ monthlyMenu /= NULL
    /\ \E k \in 1..Len(monthlyMenu.weeklyMenus) :
           LET w == monthlyMenu.weeklyMenus[k]
           IN  \E i \in 1..Len(w.dailyMenus) :
                  w.dailyMenus[i].date = DaysFromCivil(2025, 3, 9) /\ w.endDate = w.dailyMenus[i].date
    /\ \E k \in 1..Len(monthlyMenu.weeklyMenus) :
           LET w == monthlyMenu.weeklyMenus[k]
           IN  \E i \in 1..Len(w.dailyMenus) :
                  w.dailyMenus[i].date = DaysFromCivil(2025, 3, 10) /\ w.startDate = w.dailyMenus[i].date
(***************************************************************************)
(* Claim about the fetch entry points, checked on SpecFetch.               *)
(***************************************************************************)

\* C20: the fetch entry points do not conflate "zero days parsed" with
\* "fetch failed": when fetchMenuForDateAjax failed for a meal type, what
\* fetchAllMealsForDateAjax returns differs from what it returns when every
\* fetch succeeds and no day is parsed.
C20_FailureDistinguishable ==
    (fpc = "returned" /\ \E i \in 1..Len(fetched) : fetched[i] = NULL) =>
        monthlyMenu /= MonthlyMenuOf(fetchDate, <<>>)
(***************************************************************************)
(* JSON serialization of the menu hierarchy (models.ts).  The value of     *)
(* JSON.parse(JSON.stringify(x)) is modelled by the record that x.toJSON() *)
(* returns, with the nested toJSON calls applied.                          *)
(***************************************************************************)

\* variant: a toJSON that leaves out the two flags
MenuItemToJSON_NoFlags(menuItem) ==
    [name |-> menuItem.name,
     description |-> menuItem.description,
     category |-> menuItem.category,
     allergens |-> menuItem.allergens,
     nutritionalInfo |-> menuItem.nutritionalInfo]

\* MenuItem.toJSON
MenuItemToJSON(menuItem) ==
    [name |-> menuItem.name,
     description |-> menuItem.description,
     category |-> menuItem.category,
     isVegetarian |-> menuItem.isVegetarian,
     isVegan |-> menuItem.isVegan,
     allergens |-> menuItem.allergens,
     nutritionalInfo |-> menuItem.nutritionalInfo]

\* variant: a fromJSON that copies the raw fields, an absent flag read as false
MenuItemFromJSON_RawCopy(data) ==
    [name |-> data.name,
     description |-> Opt(data, "description", NullString),
     category |-> Opt(data, "category", CATEGORY_OTHER),
     allergens |-> Opt(data, "allergens", <<>>),
     nutritionalInfo |-> Opt(data, "nutritionalInfo", <<>>),
     isVegetarian |-> Opt(data, "isVegetarian", FALSE),
     isVegan |-> Opt(data, "isVegan", FALSE),
     fromBox |-> 0,
     fromAdmin |-> FALSE]

\* MenuItem.fromJSON
MenuItemFromJSON(data) == MenuItem(data)

\* DailyMenu.toJSON
DailyMenuToJSON(dailyMenu) ==
    [date |-> Format(dailyMenu.date),
     mealType |-> dailyMenu.mealType,
     menuItems |-> Map(dailyMenu.menuItems, MenuItemToJSON),
     specialNotes |-> dailyMenu.specialNotes,
     isSchoolDay |-> dailyMenu.isSchoolDay]

\* DailyMenu.fromJSON; an absent specialNotes or isSchoolDay is passed on as
\* undefined and gets the constructor's default
DailyMenuFromJSON(data) ==
    DailyMenu([date |-> data.date,
               mealType |-> data.mealType,
               menuItems |-> IF "menuItems" \in DOMAIN data
                             THEN Map(data.menuItems, MenuItemFromJSON) ELSE <<>>,
               specialNotes |-> Opt(data, "specialNotes", <<>>),
               isSchoolDay |-> Opt(data, "isSchoolDay", TRUE)])

\* WeeklyMenu.toJSON
WeeklyMenuToJSON(weeklyMenu) ==
    [startDate |-> Format(weeklyMenu.startDate),
     endDate |-> Format(weeklyMenu.endDate),
     dailyMenus |-> Map(weeklyMenu.dailyMenus, DailyMenuToJSON)]

\* WeeklyMenu.fromJSON
WeeklyMenuFromJSON(data) ==
    WeeklyMenu([startDate |-> data.startDate,
                endDate |-> data.endDate,
                dailyMenus |-> IF "dailyMenus" \in DOMAIN data
                               THEN Map(data.dailyMenus, DailyMenuFromJSON) ELSE <<>>])

\* MonthlyMenu.toJSON
MonthlyMenuToJSON(monthlyMenu_) ==
    [year |-> monthlyMenu_.year,
     month |-> monthlyMenu_.month,
     weeklyMenus |-> Map(monthlyMenu_.weeklyMenus, WeeklyMenuToJSON)]

\* MonthlyMenu.fromJSON
MonthlyMenuFromJSON(data) ==
    MonthlyMenu([year |-> data.year,
                 month |-> data.month,
                 weeklyMenus |-> IF "weeklyMenus" \in DOMAIN data
                                 THEN Map(data.weeklyMenus, WeeklyMenuFromJSON) ELSE <<>>])
(***************************************************************************)
(* SpecItemJson: one MenuItem made by the constructor or by                *)
(* MenuItem.fromJSON from data with any combination of the optional        *)
(* fields.                                                                 *)
(***************************************************************************)

\* the names of the MenuItemData
ItemNames == {T_Pizza, T_VeganChili, T_TofuWithRice, T_VeggieBurger}

\* the fields of a MenuItemData other than the name and the flags: none,
\* all, or some
ItemFieldSets ==
    {[category |-> MAIN_ENTREE],
     [description |-> T_Cheese],
     [description |-> T_Cheese, category |-> VEGETARIAN_ENTREE,
      allergens |-> <<"milk", "wheat">>, nutritionalInfo |-> << <<"calories", "250">> >>]}

\* the flags of a MenuItemData: each given as true or false, or absent
ItemFlagSets ==
    {[isVegan |-> v, isVegetarian |-> g] : v \in BOOLEAN, g \in BOOLEAN}
        \cup {[isVegan |-> v] : v \in BOOLEAN}
        \cup {[isVegetarian |-> g] : g \in BOOLEAN}

\* the MenuItemData records
ItemDatas ==
    LET named == {[name |-> n] : n \in ItemNames}
        fielded == named \cup {d @@ f : d \in named, f \in ItemFieldSets}
    IN  fielded \cup {d @@ f : d \in fielded, f \in ItemFlagSets}

\* new MenuItem(data)
ConstructItem(data) ==
    /\ itemData' = [call |-> "constructor", data |-> data]
    /\ item' = MenuItem(data)
    /\ UNCHANGED <<monthly, json, restored, weekday, meals,
                   indexVars, parseVars, fetchVars, restVars>>

\* MenuItem.fromJSON(data)
ItemFromJSON(data) ==
    /\ itemData' = [call |-> "fromJSON", data |-> data]
    /\ item' = MenuItemFromJSON(data)
    /\ UNCHANGED <<monthly, json, restored, weekday, meals,
                   indexVars, parseVars, fetchVars, restVars>>

InitItemJson == NoIndex /\ NoParse /\ NoFetch /\ NoMenu /\ NoRest

NextItemJson ==
    \/ \E data \in ItemDatas : ConstructItem(data)
    \/ \E data \in ItemDatas : ItemFromJSON(data)

SpecItemJson == InitItemJson /\ [][NextItemJson]_vars

\* C16: every MenuItem, however it is constructed, satisfies isVegan implies
\* isVegetarian.
C16_VeganImpliesVegetarian ==
    item /= NULL => (item.isVegan => item.isVegetarian)
\* some term of the set occurs in the lowercased name
NameHasTerm(name, terms) == \E term \in terms : Includes(ToLowerCase(name), term)

\* C18: MenuItem.fromJSON on data in which isVegan and/or isVegetarian is
\* absent yields the flags that the constructor yields for the same data: an
\* absent isVegan is inferred from the vegan terms in the name, an absent
\* isVegetarian is isVegan or a vegetarian term in the name (so a vegan name
\* with both flags absent gives both true), and a flag present in the data
\* is kept as given.
C18_FromJSONInfersFlags ==
    (itemData /= NULL /\ itemData.call = "fromJSON") =>
        LET data == itemData.data
            veganName == NameHasTerm(data.name, {V_Vegan, V_PlantForward, V_PlantBased})
            vegetarianName == NameHasTerm(data.name, {V_Vegetarian, V_Veggie, V_Tofu, V_Bean, V_Lentil})
        IN  /\ item.isVegan = IF "isVegan" \in DOMAIN data THEN data.isVegan ELSE veganName
            /\ item.isVegetarian = IF "isVegetarian" \in DOMAIN data THEN data.isVegetarian
                                   ELSE item.isVegan \/ vegetarianName
            /\ item.isVegan = MenuItem(data).isVegan
            /\ item.isVegetarian = MenuItem(data).isVegetarian
            /\ (veganName /\ DOMAIN data \cap {"isVegan", "isVegetarian"} = {}) =>
                   item.isVegan /\ item.isVegetarian

\* C18 witness: fromJSON was given "Vegan Chili" with a description and a
\* category but neither flag, and returned an item with both flags true
C18_Witness ==
    /\ itemData /= NULL
    /\ itemData.call = "fromJSON"
    /\ itemData.data.name = T_VeganChili
    /\ DOMAIN itemData.data \cap {"isVegan", "isVegetarian"} = {}
    /\ "allergens" \in DOMAIN itemData.data
    /\ item.isVegan /\ item.isVegetarian
(***************************************************************************)
(* SpecJson: a MonthlyMenu is built with addWeeklyMenu, addDailyMenu and   *)
(* addMenuItem, written with JSON.stringify and read back with             *)
(* MonthlyMenu.fromJSON.                                                   *)
(***************************************************************************)

\* most WeeklyMenus, DailyMenus and MenuItems of the MonthlyMenu
MaxJsonWeeks == 2
MaxJsonDays == 2
MaxJsonItems == 2

\* the MonthlyMenuData: March 2025 and December 1999
JsonMonthDatas == {[year |-> 2025, month |-> 3], [year |-> 1999, month |-> 12]}

\* the WeeklyMenuData: a week inside March 2025, and one across a month's end
JsonWeekDatas ==
    {[startDate |-> Iso(2025, 3, 10), endDate |-> Iso(2025, 3, 16)],
     [startDate |-> Iso(2025, 3, 31), endDate |-> Iso(2025, 4, 6)]}

\* the DailyMenuData: with the defaults, with notes on a day without school,
\* and a leap day with every field given
JsonDayDatas ==
    {[date |-> Iso(2025, 3, 10), mealType |-> "lunch"],
     [date |-> Iso(2025, 3, 11), mealType |-> "breakfast",
      specialNotes |-> <<"Early release", "No snack">>, isSchoolDay |-> FALSE],
     [date |-> Iso(2024, 2, 29), mealType |-> "snack",
      menuItems |-> <<>>, specialNotes |-> <<>>, isSchoolDay |-> TRUE]}

\* the MenuItemData of the items added: names with and without inference
\* terms, flags absent, given in agreement with the name and given against it
JsonItemDatas ==
    {[name |-> T_Pizza],
     [name |-> T_VeganChili],
     [name |-> T_VeganChili, isVegan |-> FALSE, isVegetarian |-> FALSE],
     [name |-> T_Pizza, isVegan |-> TRUE, isVegetarian |-> FALSE],
     [name |-> T_TofuWithRice, description |-> T_Cheese, category |-> VEGETARIAN_ENTREE,
      allergens |-> <<"milk", "wheat">>, nutritionalInfo |-> << <<"calories", "250">> >>],
     [name |-> T_VeggieBurger, description |-> <<>>, isVegetarian |-> FALSE]}

\* the DailyMenus of all weeks, in order
AllDailyMenusOf(monthlyMenu_) == Flatten(WeekMembers(monthlyMenu_.weeklyMenus))

\* the MenuItems of all DailyMenus, in order
AllMenuItemsOf(monthlyMenu_) ==
    LET days == AllDailyMenusOf(monthlyMenu_)
    IN  Flatten([i \in 1..Len(days) |-> days[i].menuItems])

\* monthly.addWeeklyMenu(new WeeklyMenu(data))
AddWeek(data) ==
    /\ monthly /= NULL /\ json = NULL
    /\ Len(monthly.weeklyMenus) < MaxJsonWeeks
    /\ monthly' = [monthly EXCEPT !.weeklyMenus = Append(@, WeeklyMenu(data))]
    /\ UNCHANGED <<json, restored, weekday, meals, itemData, item,
                   indexVars, parseVars, fetchVars, restVars>>

\* addDailyMenu(new DailyMenu(data)) on the latest WeeklyMenu, while the
\* MonthlyMenu holds fewer than most DailyMenus
AddDay(data, most) ==
    /\ monthly /= NULL /\ json = NULL
    /\ Len(monthly.weeklyMenus) > 0
    /\ Len(AllDailyMenusOf(monthly)) < most
    /\ monthly' = [monthly EXCEPT !.weeklyMenus[Len(monthly.weeklyMenus)].dailyMenus =
                                      Append(@, DailyMenu(data))]
    /\ UNCHANGED <<json, restored, weekday, meals, itemData, item,
                   indexVars, parseVars, fetchVars, restVars>>

\* addMenuItem(new MenuItem(data)) on the latest DailyMenu of the latest
\* WeeklyMenu
AddItem(data) ==
    /\ monthly /= NULL /\ json = NULL
    /\ Len(monthly.weeklyMenus) > 0
    /\ LET w == Len(monthly.weeklyMenus)
           d == Len(monthly.weeklyMenus[w].dailyMenus)
       IN  /\ d > 0
           /\ Len(AllMenuItemsOf(monthly)) < MaxJsonItems
           /\ monthly' = [monthly EXCEPT !.weeklyMenus[w].dailyMenus[d].menuItems =
                                             Append(@, MenuItem(data))]
    /\ UNCHANGED <<json, restored, weekday, meals, itemData, item,
                   indexVars, parseVars, fetchVars, restVars>>

\* json = JSON.parse(JSON.stringify(monthly)): stringify calls
\* monthly.toJSON()
Stringify ==
    /\ monthly /= NULL /\ json = NULL
    /\ json' = MonthlyMenuToJSON(monthly)
    /\ UNCHANGED <<monthly, restored, weekday, meals, itemData, item,
                   indexVars, parseVars, fetchVars, restVars>>

\* restored = MonthlyMenu.fromJSON(json)
FromJSON ==
    /\ json /= NULL /\ restored = NULL
    /\ restored' = MonthlyMenuFromJSON(json)
    /\ UNCHANGED <<monthly, json, weekday, meals, itemData, item,
                   indexVars, parseVars, fetchVars, restVars>>

InitJson ==
    /\ monthly \in {MonthlyMenu(data) : data \in JsonMonthDatas}
    /\ json = NULL
    /\ restored = NULL
    /\ weekday = 0
    /\ meals = NULL
    /\ itemData = NULL
    /\ item = NULL
    /\ NoIndex /\ NoParse /\ NoFetch /\ NoRest

NextJson ==
    \/ \E data \in JsonWeekDatas : AddWeek(data)
    \/ \E data \in JsonDayDatas : AddDay(data, MaxJsonDays)
    \/ \E data \in JsonItemDatas : AddItem(data)
    \/ Stringify
    \/ FromJSON

SpecJson == InitJson /\ [][NextJson]_vars

\* a "yyyy-MM-dd" string: four year digits, a month and a day of the month
IsDateString(str) ==
    /\ DOMAIN str = {"yyyy", "MM", "dd"}
    /\ str.yyyy \in 0..9999 /\ str.MM \in 1..12 /\ str.dd \in 1..31

\* C17: serialization round trip: MonthlyMenu.fromJSON of the JSON of a
\* MonthlyMenu has the same year and month, the same weeks with the same
\* startDate and endDate, the same DailyMenus (date, meal type, notes,
\* isSchoolDay) in the same order and the same MenuItems (name, description,
\* category, flags, allergens, nutritional info) in the same order; every
\* date of the JSON is a YYYY-MM-DD string, and the JSON of the restored
\* MonthlyMenu is the JSON it was read from.
C17_RoundTrip ==
    /\ json /= NULL =>
           /\ json.year = monthly.year /\ json.month = monthly.month
           /\ \A w \in 1..Len(json.weeklyMenus) :
                  /\ IsDateString(json.weeklyMenus[w].startDate)
                  /\ IsDateString(json.weeklyMenus[w].endDate)
                  /\ \A d \in 1..Len(json.weeklyMenus[w].dailyMenus) :
                         IsDateString(json.weeklyMenus[w].dailyMenus[d].date)
    /\ restored /= NULL =>
           /\ restored.year = monthly.year
           /\ restored.month = monthly.month
           /\ Len(restored.weeklyMenus) = Len(monthly.weeklyMenus)
           /\ \A w \in 1..Len(monthly.weeklyMenus) :
                  LET a == monthly.weeklyMenus[w]
                      b == restored.weeklyMenus[w]
                  IN  /\ b.startDate = a.startDate
                      /\ b.endDate = a.endDate
                      /\ Len(b.dailyMenus) = Len(a.dailyMenus)
                      /\ \A d \in 1..Len(a.dailyMenus) :
                             LET x == a.dailyMenus[d]
                                 y == b.dailyMenus[d]
                             IN  /\ y.date = x.date
                                 /\ y.mealType = x.mealType
                                 /\ y.specialNotes = x.specialNotes
                                 /\ y.isSchoolDay = x.isSchoolDay
                                 /\ Len(y.menuItems) = Len(x.menuItems)
                                 /\ \A i \in 1..Len(x.menuItems) :
                                        /\ y.menuItems[i].name = x.menuItems[i].name
                                        /\ y.menuItems[i].description = x.menuItems[i].description
                                        /\ y.menuItems[i].category = x.menuItems[i].category
                                        /\ y.menuItems[i].isVegetarian = x.menuItems[i].isVegetarian
                                        /\ y.menuItems[i].isVegan = x.menuItems[i].isVegan
                                        /\ y.menuItems[i].allergens = x.menuItems[i].allergens
                                        /\ y.menuItems[i].nutritionalInfo = x.menuItems[i].nutritionalInfo
           /\ MonthlyMenuToJSON(restored) = json

\* C17 witness: a MonthlyMenu with two weeks, two days and two items, among
\* them an item whose flags disagree with its name, an item without
\* description and a day without school, was written and read back
C17_Witness ==
    /\ restored /= NULL
    /\ Len(restored.weeklyMenus) = 2
    /\ Len(AllDailyMenusOf(restored)) = 2
    /\ Len(AllMenuItemsOf(restored)) = 2
    /\ \E d \in 1..2 : ~AllDailyMenusOf(restored)[d].isSchoolDay
    /\ \E i \in 1..2 : /\ AllMenuItemsOf(restored)[i].name = T_VeganChili
                        /\ ~AllMenuItemsOf(restored)[i].isVegan
                        /\ AllMenuItemsOf(restored)[i].description = NullString
(***************************************************************************)
(* SpecWeekday: a WeeklyMenu that is filled with addDailyMenu and queried  *)
(* with getMealsByWeekday.                                                 *)
(***************************************************************************)

\* most DailyMenus of the WeeklyMenu
MaxWeekdayMenus == 3

\* Weekday (models.ts:17-25): SUNDAY = 0 .. SATURDAY = 6
Weekdays == 0..6

\* the DailyMenuData: every meal type on Monday 2025-03-10, Tuesday
\* 2025-03-11, Friday 2025-03-14, Saturday 2025-03-15 and Monday 2025-03-17;
\* the notes tell two DailyMenus of one date and meal type apart
WeekdayDayDatas ==
    {[date |-> Iso(2025, 3, dd), mealType |-> type] :
        dd \in {10, 11, 14, 15, 17}, type \in MealTypes}
    \cup {[date |-> Iso(2025, 3, 10), mealType |-> "lunch", specialNotes |-> <<"second">>]}

\* this.dailyMenus.filter((menu) => menu.date.getDay() === weekday)
RECURSIVE MenusOnWeekday(_, _)
MenusOnWeekday(menus, day) ==
    IF menus = <<>> THEN <<>>
    ELSE IF GetDay(Head(menus).date) = day
         THEN <<Head(menus)>> \o MenusOnWeekday(Tail(menus), day)
         ELSE MenusOnWeekday(Tail(menus), day)

\* variant: the first DailyMenu of the meal type on any weekday
MealOfType_AnyDay(weeklyMenu, day, type) ==
    LET i == Find(weeklyMenu.dailyMenus, LAMBDA menu : menu.mealType = type)
    IN  IF i = 0 THEN NULL ELSE weeklyMenu.dailyMenus[i]

\* menus.find((menu) => menu.mealType === type) ?? null, over the
\* DailyMenus of the weekday
MealOfType(weeklyMenu, day, type) ==
    LET menus == MenusOnWeekday(weeklyMenu.dailyMenus, day)
        i == Find(menus, LAMBDA menu : menu.mealType = type)
    IN  IF i = 0 THEN NULL ELSE menus[i]

\* WeeklyMenu.getMealsByWeekday(weekday)
GetMealsByWeekday(weeklyMenu, day) ==
    [breakfast |-> MealOfType(weeklyMenu, day, "breakfast"),
     lunch |-> MealOfType(weeklyMenu, day, "lunch"),
     snack |-> MealOfType(weeklyMenu, day, "snack")]

\* meals = monthly.weeklyMenus[1].getMealsByWeekday(day)
CallGetMealsByWeekday(day) ==
    /\ monthly /= NULL
    /\ Len(monthly.weeklyMenus) > 0
    /\ weekday' = day
    /\ meals' = GetMealsByWeekday(monthly.weeklyMenus[1], day)
    /\ UNCHANGED <<monthly, json, restored, itemData, item,
                   indexVars, parseVars, fetchVars, restVars>>

InitWeekday ==
    /\ monthly = MonthlyMenu([year |-> 2025, month |-> 3,
                              weeklyMenus |-> <<WeeklyMenu([startDate |-> Iso(2025, 3, 10),
                                                            endDate |-> Iso(2025, 3, 16)])>>])
    /\ json = NULL
    /\ restored = NULL
    /\ weekday = 0
    /\ meals = NULL
    /\ itemData = NULL
    /\ item = NULL
    /\ NoIndex /\ NoParse /\ NoFetch /\ NoRest

NextWeekday ==
    \/ \E data \in WeekdayDayDatas : AddDay(data, MaxWeekdayMenus)
    \/ \E day \in Weekdays : CallGetMealsByWeekday(day)

SpecWeekday == InitWeekday /\ [][NextWeekday]_vars

\* C19: getMealsByWeekday(w) for w in Monday..Friday: for each meal type
\* the returned record is a DailyMenu held by the week (the first in its
\* order) with that meal type whose date falls on weekday w if the week
\* holds one, and null otherwise; a returned DailyMenu never has another
\* weekday or meal type, and the call leaves the week as it was.
C19_MealsByWeekday ==
    [][\A day \in 1..5 :
          CallGetMealsByWeekday(day) =>
              /\ monthly' = monthly
              /\ \A type \in MealTypes :
                     LET held == monthly.weeklyMenus[1].dailyMenus
                         matching == {i \in 1..Len(held) :
                                         held[i].mealType = type /\ GetDay(held[i].date) = day}
                     IN  IF matching = {}
                         THEN meals'[type] = NULL
                         ELSE /\ meals'[type] /= NULL
                              /\ meals'[type].mealType = type
                              /\ GetDay(meals'[type].date) = day
                              /\ meals'[type] = held[CHOOSE i \in matching :
                                                        \A j \in matching : i <= j]
    ]_vars

\* C19 witness: the week holds a Tuesday lunch, then two Monday lunches of
\* which the one with the note came first; getMealsByWeekday(Monday)
\* returned the noted lunch and null for breakfast and snack
C19_Witness ==
    /\ meals /= NULL
    /\ weekday = 1
    /\ Len(monthly.weeklyMenus[1].dailyMenus) = 3
    /\ GetDay(monthly.weeklyMenus[1].dailyMenus[1].date) = 2
    /\ monthly.weeklyMenus[1].dailyMenus[1].mealType = "lunch"
    /\ meals.lunch /= NULL
    /\ meals.lunch = monthly.weeklyMenus[1].dailyMenus[2]
    /\ meals.lunch.specialNotes = <<"second">>
    /\ monthly.weeklyMenus[1].dailyMenus[3].mealType = "lunch"
    /\ monthly.weeklyMenus[1].dailyMenus[3].date = meals.lunch.date
    /\ meals.breakfast = NULL
    /\ meals.snack = NULL
(***************************************************************************)
(* SpecStore: the runs of the worker that write the stored menu: the       *)
(* scheduled handler (index.ts:464-476) and POST /api/seed/:date           *)
(* (index.ts:111-121).  Each run awaits fetchAllMealsForDateAjax and then  *)
(* the put; runs interleave at these awaits.                               *)
(***************************************************************************)

\* most runs started
MaxRuns == 3

\* the combined DailyMenu lists of a scrape: none, one lunch, and a lunch and
\* a breakfast in two weeks
ScrapedLists ==
    {<<>>,
     <<DailyMenu([date |-> Iso(2025, 3, 7), mealType |-> "lunch"])>>,
     <<DailyMenu([date |-> Iso(2025, 3, 24), mealType |-> "breakfast"]),
       DailyMenu([date |-> Iso(2025, 3, 10), mealType |-> "lunch"])>>}

\* what fetchAllMealsForDateAjax resolves to: null or a MonthlyMenu
ScrapeResults ==
    {MonthlyMenuOf(date, all) : date \in FetchDates, all \in ScrapedLists}

\* variant: a put that appends the new weeks to the stored ones
PutValue_Merge(old, new) ==
    IF old = NULL THEN new
    ELSE [new EXCEPT !.weeklyMenus = old.weeklyMenus \o @]

\* MENU_DATA.put(MENU_PATH, body): the value under the key after the put
PutValue(old, new) == new

\* a run starts: new StreamingScraper() and the call of
\* fetchAllMealsForDateAjax
StartRun(kind) ==
    /\ Len(runs) < MaxRuns
    /\ runs' = Append(runs, [kind |-> kind, pc |-> "scraping",
                             monthlyMenu |-> NULL, body |-> NULL])
    /\ UNCHANGED <<stored, scraped, scheduleVars, workerVars, layoutVars, streamVars,
                   indexVars, parseVars, fetchVars, menuVars>>

\* the scheduled event fires
StartScheduled ==
    /\ Len(runs) < MaxRuns
    /\ StartRun("scheduled")

\* a POST /api/seed/:date request arrives
StartSeed ==
    /\ Len(runs) < MaxRuns
    /\ StartRun("seed")

\* fetchAllMealsForDateAjax of run r resolves: with a MonthlyMenu the run
\* calls put with JSON.stringify(monthlyMenu), with null it ends
ScrapeReturns(r, menu) ==
    /\ runs[r].pc = "scraping"
    /\ IF menu /= NULL
       THEN /\ runs' = [runs EXCEPT ![r].pc = "putting",
                                    ![r].monthlyMenu = menu,
                                    ![r].body = MonthlyMenuToJSON(menu)]
            /\ scraped' = scraped \cup {menu}
       ELSE /\ runs' = [runs EXCEPT ![r].pc = "done"]
            /\ UNCHANGED scraped
    /\ UNCHANGED <<stored, scheduleVars, workerVars, layoutVars, streamVars,
                   indexVars, parseVars, fetchVars, menuVars>>

\* fetchAllMealsForDateAjax of run r rejects: the scheduled handler catches
\* and logs, the seed request fails
ScrapeRejects(r) ==
    /\ runs[r].pc = "scraping"
    /\ runs' = [runs EXCEPT ![r].pc = "done"]
    /\ UNCHANGED <<stored, scraped, scheduleVars, workerVars, layoutVars, streamVars,
                   indexVars, parseVars, fetchVars, menuVars>>

\* the put of run r takes effect
PutCompletes(r) ==
    /\ runs[r].pc = "putting"
    /\ stored' = PutValue(stored, runs[r].body)
    /\ runs' = [runs EXCEPT ![r].pc = "done"]
    /\ UNCHANGED <<scraped, scheduleVars, workerVars, layoutVars, streamVars,
                   indexVars, parseVars, fetchVars, menuVars>>

InitStore ==
    /\ stored = NULL
    /\ runs = <<>>
    /\ scraped = {}
    /\ NoSchedule /\ NoWorker /\ NoLayout /\ NoStream /\ NoIndex /\ NoParse /\ NoFetch /\ NoMenu

NextStore ==
    \/ StartScheduled
    \/ StartSeed
    \/ \E r \in 1..Len(runs) : \E menu \in ScrapeResults : ScrapeReturns(r, menu)
    \/ \E r \in 1..Len(runs) : ScrapeRejects(r)
    \/ \E r \in 1..Len(runs) : PutCompletes(r)

SpecStore == InitStore /\ [][NextStore]_vars

\* a step changes the stored object only as the put of a run whose scrape
\* returned a MonthlyMenu, to that menu's serialization; the step of a scrape
\* that returns null or rejects ends the run and leaves the stored object
StoreStepIsWholesale ==
    /\ stored' /= stored =>
           \E r \in 1..Len(runs) :
               /\ runs[r].pc = "putting" /\ runs'[r].pc = "done"
               /\ runs[r].monthlyMenu /= NULL
               /\ stored' = MonthlyMenuToJSON(runs[r].monthlyMenu)
    /\ \A r \in 1..Len(runs) :
           (ScrapeReturns(r, NULL) \/ ScrapeRejects(r)) =>
               stored' = stored /\ runs'[r].pc = "done"

\* C21: across every interleaving of scheduled runs and /api/seed requests
\* the stored object is absent or the complete serialization of the
\* MonthlyMenu that one single scrape returned; every change of it is the
\* put of a run whose scrape returned a MonthlyMenu and replaces it by that
\* menu's serialization; a scrape that returns null (or rejects) leaves it
\* unchanged and ends the run without a put.
C21_StoredIsOneScrape ==
    /\ [](stored = NULL \/ \E menu \in scraped : stored = MonthlyMenuToJSON(menu))
    /\ [][StoreStepIsWholesale]_vars

\* C21 witness: three runs are done, a scheduled one and a seed request
\* whose scrapes returned different MonthlyMenus and one whose scrape
\* returned null; the stored object is the serialization of the first run's
\* menu, whose put came last
C21_Witness ==
    /\ Len(runs) = 3
    /\ \A r \in 1..3 : runs[r].pc = "done"
    /\ runs[1].kind = "scheduled" /\ runs[2].kind = "seed"
    /\ runs[1].monthlyMenu /= NULL /\ runs[2].monthlyMenu /= NULL
    /\ runs[1].monthlyMenu /= runs[2].monthlyMenu
    /\ runs[3].monthlyMenu = NULL
    /\ stored = MonthlyMenuToJSON(runs[1].monthlyMenu)
(***************************************************************************)
(* SpecScheduled: the week that fetchWeeklyMenuForScheduledRun             *)
(* (part_000:422-485, part_001:418-481) selects from the weeks of the      *)
(* MonthlyMenu it fetched, beside the week getWeeklyMenuForDate returns    *)
(* for the same date on the same weeks.                                    *)
(***************************************************************************)

\* the target date of a scheduled run at the date now: now on a weekday,
\* now.setDate(now.getDate() + 7) on a Saturday or Sunday
ScheduledTargetDate(now) ==
    IF GetDay(now) = 0 \/ GetDay(now) = 6
    THEN SetDate(now, GetDate(now) + 7)
    ELSE now

\* the test of the for loop: the target date, as a calendar day, lies from
\* the week's start day to its end day
InWeek(weeklyMenu, target) ==
    target >= weeklyMenu.startDate /\ target <= weeklyMenu.endDate

\* the for loop with its break: the first week that holds the target date,
\* 0 (null) when none does
ScheduledRunWeek(menus, now) ==
    Find(menus, LAMBDA weeklyMenu : InWeek(weeklyMenu, ScheduledTargetDate(now)))

\* both selections for one date on the weeks of the MonthlyMenu
CallBothRules(date) ==
    /\ targetDate' = date
    /\ result' = GetWeeklyMenuForDate(weeklyMenus, date)
    /\ scheduledWeek' = ScheduledRunWeek(weeklyMenus, date)
    /\ ipc' = "returned"
    /\ UNCHANGED <<weeklyMenus, storeVars, streamVars, workerVars, layoutVars, parseVars, fetchVars, menuVars>>

InitScheduled == InitIndex

NextScheduled ==
    \/ \E data \in WeekData : AddWeeklyMenu(data)
    \/ \E date \in TargetDates : CallBothRules(date)

SpecScheduled == InitScheduled /\ [][NextScheduled]_vars

\* C22: for every date and every list of WeeklyMenus the week selected by
\* fetchWeeklyMenuForScheduledRun's rule is the week, or the absence, that
\* getWeeklyMenuForDate returns for that date on that list.
C22_OneResolutionRule ==
    ipc = "returned" => scheduledWeek = result
\* C24: fetchAllMealsForDateAjax: when at least one DailyMenu is parsed
\* across the three meal types the returned MonthlyMenu's weeks are the week
\* bucketer's output on the combined list, its getAllDailyMenus holds every
\* DailyMenu of the combined list exactly as often as the list does, and its
\* year and month are those of the target date; when no DailyMenu is parsed
\* the result is null.
C24_HierarchyConstruction ==
    fpc = "returned" =>
        IF Len(BucketerInput) = 0
        THEN monthlyMenu = NULL
        ELSE /\ monthlyMenu /= NULL
             /\ monthlyMenu.weeklyMenus = GroupDailyMenusByWeek(BucketerInput)
             /\ BagOf(AllDailyMenusOf(monthlyMenu)) = BagOf(BucketerInput)
             /\ Len(AllDailyMenusOf(monthlyMenu)) = Len(BucketerInput)
             /\ monthlyMenu.year = CivilFromDays(fetchDate)[1]
             /\ monthlyMenu.month = CivilFromDays(fetchDate)[2]

\* C24 witness: the call for 2025-12-31 returned a MonthlyMenu labelled
\* December 2025 whose three DailyMenus, of three meal types, lie in March
C24_Witness ==
    /\ fpc = "returned" /\ monthlyMenu /= NULL
    /\ fetchDate = DaysFromCivil(2025, 12, 31)
    /\ monthlyMenu.year = 2025 /\ monthlyMenu.month = 12
    /\ Len(AllDailyMenusOf(monthlyMenu)) = 3
    /\ {AllDailyMenusOf(monthlyMenu)[i].mealType : i \in 1..3} = MealTypes
    /\ \A i \in 1..3 : CivilFromDays(AllDailyMenusOf(monthlyMenu)[i].date)[2] = 3
(***************************************************************************)
(* Further claims about the parsers, checked on SpecParse.                 *)
(***************************************************************************)

\* C27: both versions: a colour-icon element changes only the category of
\* the open item: with no item open it changes nothing of the parse state,
\* and with one open it leaves the item's other fields, the open day (its
\* date and the items completed into it), the completed days and the output
\* as they were.
C27_ColorIconChangesOnlyCategory ==
    [][\A styleAttr \in StyleAttrs :
          ColorIconElement(styleAttr) =>
              /\ OpenDay' = OpenDay
              /\ dayBoxes' = dayBoxes
              /\ Output' = Output
              /\ IF OpenItem = NULL
                 THEN state' = state /\ scraperState' = scraperState
                 ELSE /\ OpenItem' /= NULL
                      /\ OpenItem' = [OpenItem EXCEPT !.category = OpenItem'.category]
    ]_vars

\* C27 witness: the parse returned a day with two items named Pizza, the
\* first with the category of its colour icon (#bc0945, Main Entree) and the
\* second with the category it was opened with
C27_Witness ==
    /\ ppc = "done" /\ ~threw
    /\ Len(Output) = 1
    /\ Len(Output[1].menuItems) = 2
    /\ Output[1].menuItems[1].name = T_Pizza
    /\ Output[1].menuItems[1].category = MAIN_ENTREE
    /\ Output[1].menuItems[2].name = T_Pizza
    /\ Output[1].menuItems[2].category = CATEGORY_OTHER
\* C26: ScraperState version: an item in whose container a title containing,
\* case-insensitively, a pattern of the specified announcement list (no
\* school, winter break, last day of school, memorial day, teacher, spring
\* break, quarter ends) was read never reaches the output, whatever colour or
\* title elements follow in the same container.
C26_AnnouncementDiscardsItem ==
    (version = "ScraperState" /\ ppc = "done") =>
        \A i \in 1..Len(scraperState.completedDays) :
            \A j \in 1..Len(scraperState.completedDays[i].menuItems) :
                ~scraperState.completedDays[i].menuItems[j].fromAdmin
\* the item container of the item was read while the ScraperState had no
\* day open: only weekend boxes, which part_001:286-288 skips, came before it
OpenedWithNoDay(menuItem) == \A b \in 1..menuItem.fromBox : IsWeekendBox(b)

\* while the ScraperState version parses, no day is open exactly when only
\* weekend boxes have been read
NoDayOpenMeansOnlyWeekendBoxes ==
    (version = "ScraperState" /\ ppc = "parsing") =>
        (scraperState.currentDayBox = NULL <=> \A b \in 1..CurrentBox : IsWeekendBox(b))

\* C25: ScraperState version: no item whose item container was read while no
\* day was open (before the first day box, or after weekend boxes only) is
\* in a DailyMenu of the output.
C25_NoDayItemDiscarded ==
    (version = "ScraperState" /\ ppc = "done") =>
        \A i \in 1..Len(scraperState.completedDays) :
            \A j \in 1..Len(scraperState.completedDays[i].menuItems) :
                ~OpenedWithNoDay(scraperState.completedDays[i].menuItems[j])
(***************************************************************************)
(* SpecDate: fragments whose day boxes all have events and whose date      *)
(* elements may lack a component or have one that is no number or out of   *)
(* range; each element is handed to the handler of the version that runs.  *)
(***************************************************************************)

\* the texts of a data-day, data-month and data-year attribute: a valid one,
\* an absent or empty one, one that is no number, and out-of-range ones
DayTexts   == {"7", NoAttr, "abc", "0", "-1"}
MonthTexts == {"2", NoAttr, "abc", "-1"}
YearTexts  == {"2025", NoAttr, "abc", "0", "-1"}

\* date elements with at most one component that is not the valid one, and
\* the Saturday 2025-03-08
MalformedDateAttrs ==
    { attrs \in [day : DayTexts, month : MonthTexts, year : YearTexts] :
          Cardinality({f \in {"day", "month", "year"} :
                          attrs[f] /= FridayAttrs[f]}) <= 1 }
    \cup {[day |-> "8", month |-> "2", year |-> "2025"]}

InitDate == InitParse

NextDate ==
    \/ DayboxElement({"fsStateHasEvents"})
    \/ \E attrs \in MalformedDateAttrs : DateElement(attrs)
    \/ InfoElement
    \/ EventTitleElement(T_Pizza)
    \/ EndOfStream

SpecDate == InitDate /\ [][NextDate]_vars

\* the attribute is absent or empty, is no decimal number, or is a number
\* below the least value the component can have
IsMissingOrMalformed(text, least) ==
    \/ text = NoAttr
    \/ ParseInt(text).isNaN
    \/ ParseInt(text).n < least

\* a component of the date element is missing or malformed: the day (from
\* 1), the zero-based month (from 0) or the year (from 1)
HasMalformedComponent(attrs) ==
    \/ IsMissingOrMalformed(attrs.day, 1)
    \/ IsMissingOrMalformed(attrs.month, 0)
    \/ IsMissingOrMalformed(attrs.year, 1)

MalformedDateLeavesDay ==
    \A attrs \in MalformedDateAttrs :
        (DateElement(attrs) /\ HasMalformedComponent(attrs)) => OpenDay' = OpenDay

\* C28: both versions: a date element with a missing or malformed day,
\* month or year (a missing month with a valid day and year included) leaves
\* the open day and its date as they were, and every DailyMenu of the output
\* has its date from a date element.
C28_MalformedDateUnresolved ==
    /\ [](ppc = "done" => \A i \in 1..Len(Output) : Output[i].dateFromBox > 0)
    /\ [][MalformedDateLeavesDay]_vars
(***************************************************************************)
(* SpecStream: one fragment is read by both versions of                    *)
(* parseCalendarFragment at once: each element is handed to the handler of *)
(* the closure version (state, dayBoxes, dailyMenus, threw) and to the     *)
(* handler of the ScraperState version (scraperState), and is recorded in  *)
(* events.  The variable version is not read.                              *)
(***************************************************************************)

\* bound: the elements of a fragment
MaxEvents == 5

\* the class attributes, date attributes, style and titles of the fragment
StreamDayboxClasses == {{"fsStateHasEvents"}, {"fsStateHasEvents", "fsCalendarWeekendDayBox"}, {}}
StreamDateAttrs == {FridayAttrs, [day |-> "7", month |-> "2", year |-> "300000"]}
StreamStyleAttrs == {<<"b", "a", "c", "k", "g", "r", "o", "u", "n", "d", ":", "#", "b", "c", "0", "9", "4", "5">>}
StreamTitleAttrs == {T_Pizza, T_NoSchool, T_QuarterEnds}

InitStream ==
    /\ version = "closure"
    /\ mealType \in RequestedMealTypes
    /\ state = [currentDayBox |-> NULL, currentMenuItem |-> NULL]
    /\ dayBoxes = <<>>
    /\ dailyMenus = <<>>
    /\ threw = FALSE
    /\ scraperState = [mealType |-> mealType, currentDayBox |-> NULL,
                       currentMenuItem |-> NULL, completedDays |-> <<>>]
    /\ doc = [boxes |-> <<>>, infos |-> 0]
    /\ ppc = "parsing"
    /\ events = <<>>
    /\ parses = <<>>
    /\ NoIndex
    /\ NoFetch
    /\ NoMenu
    /\ NoStore
    /\ NoSchedule /\ NoWorker /\ NoLayout

\* the element is read: it is the next of the fragment
Read(event) ==
    /\ ppc = "parsing"
    /\ Len(events) < MaxEvents
    /\ events' = Append(events, event)
    /\ UNCHANGED <<version, mealType, dailyMenus, threw, ppc, parses,
                   indexVars, fetchVars, menuVars, storeVars, scheduleVars, workerVars, layoutVars>>

\* a div.fsCalendarDaybox element, part_000:214-247 and part_001:282-293
StreamDaybox(classNames) ==
    /\ Read([tag |-> "daybox", classNames |-> classNames])
    /\ doc' = [doc EXCEPT !.boxes = Append(@, [classNames |-> classNames, infos |-> 0])]
    /\ dayBoxes' = CompleteDayBox(state, dayBoxes).dayBoxes
    /\ state' = OpenDayBox(classNames, Len(doc.boxes) + 1)
    /\ scraperState' = ScraperDaybox(scraperState, classNames, Len(doc.boxes) + 1)

\* a div.fsCalendarDate element, part_000:249-268 and part_001:294-313
StreamDate(attrs) ==
    /\ Read([tag |-> "date", attrs |-> attrs])
    /\ state' = ClosureDate(state, attrs, CurrentBox)
    /\ scraperState' = ScraperDate(scraperState, attrs, CurrentBox)
    /\ UNCHANGED <<dayBoxes, doc>>

\* a div.fsCalendarInfo element, part_000:269-287 and part_001:314-318
StreamInfo ==
    /\ Read([tag |-> "info"])
    /\ doc' = IF CurrentBox > 0
              THEN [doc EXCEPT !.infos = @ + 1, !.boxes[CurrentBox].infos = @ + 1]
              ELSE [doc EXCEPT !.infos = @ + 1]
    /\ state' = ClosureInfo(state, CurrentBox)
    /\ scraperState' = StartMenuItem(scraperState, CurrentBox)
    /\ UNCHANGED dayBoxes

\* a span.fsElementEventColorIcon element, part_000:288-301 and part_001:319-330
StreamColorIcon(styleAttr) ==
    /\ Read([tag |-> "color", style |-> styleAttr])
    /\ state' = ClosureColorIcon(state, styleAttr)
    /\ scraperState' = ScraperColorIcon(scraperState, styleAttr)
    /\ UNCHANGED <<dayBoxes, doc>>

\* an a.fsCalendarEventTitle element, part_000:302-332 and part_001:331-343
StreamEventTitle(titleAttr) ==
    /\ Read([tag |-> "title", title |-> titleAttr])
    /\ state' = ClosureEventTitle(state, titleAttr)
    /\ scraperState' = ScraperEventTitle(scraperState, titleAttr)
    /\ UNCHANGED <<dayBoxes, doc>>

\* the end of the stream: part_000:338-360 and part_001:351-356
StreamEnd ==
    /\ ppc = "parsing"
    /\ ppc' = "done"
    /\ LET final == CompleteDayBox(state, dayBoxes)
       IN  /\ state' = [state EXCEPT !.currentDayBox = final.box]
           /\ dayBoxes' = final.dayBoxes
           /\ threw' = ConversionThrows(final.dayBoxes)
           /\ dailyMenus' = IF ConversionThrows(final.dayBoxes) THEN <<>>
                            ELSE ConvertDayBoxes(final.dayBoxes, mealType)
    /\ scraperState' = EndDayBox(EndMenuItem(scraperState))
    /\ UNCHANGED <<version, mealType, doc, events, parses,
                   indexVars, fetchVars, menuVars, storeVars, scheduleVars, workerVars, layoutVars>>

NextStream ==
    \/ \E classNames \in StreamDayboxClasses : StreamDaybox(classNames)
    \/ \E attrs \in StreamDateAttrs : StreamDate(attrs)
    \/ StreamInfo
    \/ \E styleAttr \in StreamStyleAttrs : StreamColorIcon(styleAttr)
    \/ \E titleAttr \in StreamTitleAttrs : StreamEventTitle(titleAttr)
    \/ StreamEnd

SpecStream == InitStream /\ [][NextStream]_vars
(***************************************************************************)
(* What a fragment holds, read off the recorded elements: its day boxes,   *)
(* the item containers of a day box and the elements of each.              *)
(***************************************************************************)

\* the elements of the set of numbers in ascending order
RECURSIVE Ascending(_)
Ascending(S) ==
    IF S = {} THEN <<>>
    ELSE LET least == CHOOSE x \in S : \A y \in S : x <= y
         IN  <<least>> \o Ascending(S \ {least})

Tagged(tag) == {i \in 1..Len(events) : events[i].tag = tag}

\* the last element that lies in the day box (item container) opened by
\* element p: the one before the next element with one of the tags
LastBefore(p, tags, limit) ==
    LET later == {i \in (p + 1)..limit : events[i].tag \in tags}
    IN  IF later = {} THEN limit ELSE (CHOOSE i \in later : \A j \in later : i <= j) - 1

BoxEnd(p) == LastBefore(p, {"daybox"}, Len(events))

ContainerEnd(c) == LastBefore(c, {"daybox", "info"}, Len(events))

Last(S) == CHOOSE i \in S : \A j \in S : j <= i

\* the date elements of the day box whose components give a calendar day
ResolvingDates(p) ==
    {i \in (p + 1)..BoxEnd(p) :
        /\ events[i].tag = "date"
        /\ ~HasMalformedComponent(events[i].attrs)
        /\ NewDate(ParseInt(events[i].attrs.year).n, ParseInt(events[i].attrs.month).n,
                   ParseInt(events[i].attrs.day).n) /= InvalidDate}

\* the calendar day of the date element, as the Date a DailyMenu holds
DateOfElement(i) ==
    NewDate(ParseInt(events[i].attrs.year).n, ParseInt(events[i].attrs.month).n,
            ParseInt(events[i].attrs.day).n).time

\* the title elements of the item container that name a food
NamingTitles(c) ==
    {i \in (c + 1)..ContainerEnd(c) :
        /\ events[i].tag = "title"
        /\ Trim(events[i].title) /= <<>>
        /\ ~IsAnnouncement(DecodeEntities(Trim(events[i].title)))}

\* the colour icons of the item container that have a background colour
Colourings(c) ==
    {i \in (c + 1)..ContainerEnd(c) :
        events[i].tag = "color" /\ BackgroundOf(events[i].style) /= NULL}

\* the item containers of the day box that got a name
NamedContainers(p) ==
    {c \in (p + 1)..BoxEnd(p) : events[c].tag = "info" /\ NamingTitles(c) /= {}}

NamedItem(c) ==
    LET parsed == ParseMenuItemText(DecodeEntities(Trim(events[Last(NamingTitles(c))].title)))
    IN  [name |-> parsed.name,
         description |-> parsed.description,
         category |-> IF Colourings(c) = {} THEN CATEGORY_OTHER
                      ELSE CategoryOf(ToUpperCase(
                               BackgroundOf(events[Last(Colourings(c))].style).text))]

\* the day boxes that are not weekend-flagged, have the has-events marker,
\* got a resolved date and got a named item
QualifyingBoxes ==
    {p \in Tagged("daybox") :
        /\ "fsCalendarWeekendDayBox" \notin events[p].classNames
        /\ "fsStateHasEvents" \in events[p].classNames
        /\ ResolvingDates(p) /= {}
        /\ NamedContainers(p) /= {}}

\* one day per qualifying box in document order, with the named items opened
\* inside the box in document order
DaysOfFragment ==
    LET boxes == Ascending(QualifyingBoxes)
    IN  [k \in 1..Len(boxes) |->
            LET containers == Ascending(NamedContainers(boxes[k]))
            IN  [date |-> DateOfElement(Last(ResolvingDates(boxes[k]))),
                 mealType |-> mealType,
                 menuItems |-> [n \in 1..Len(containers) |-> NamedItem(containers[n])]]]

\* the dates, meal types and items (name, description, category) of a
\* sequence of DailyMenus
DaysOf(menus) ==
    [k \in 1..Len(menus) |->
        [date |-> menus[k].date,
         mealType |-> menus[k].mealType,
         menuItems |-> [n \in 1..Len(menus[k].menuItems) |->
                           [name |-> menus[k].menuItems[n].name,
                            description |-> menus[k].menuItems[n].description,
                            category |-> menus[k].menuItems[n].category]]]]

\* C29: closure version, whole-stream result: the parse returns, and its
\* output holds exactly one DailyMenu for each day box that is not
\* weekend-flagged, has the has-events marker, got a resolved date and got a
\* named item, and none for another box; they are in the document order of
\* their boxes and each holds exactly the named items opened inside its box,
\* in document order.
C29_ClosureWholeStream ==
    ppc = "done" => (~threw /\ DaysOf(dailyMenus) = DaysOfFragment)

\* the closure version's result is the claimed one unless the conversion threw
ClosureWholeStreamUnlessThrown ==
    (ppc = "done" /\ ~threw) => DaysOf(dailyMenus) = DaysOfFragment
\* every day box of the fragment carries the has-events marker
EveryBoxHasEvents ==
    \A p \in Tagged("daybox") : "fsStateHasEvents" \in events[p].classNames

\* C30: the two versions are equivalent: for every fragment in which every
\* day box carries the has-events marker, both return, and they return the
\* same sequence of DailyMenus (same dates and meal types, same items with
\* the same name, description and category, in the same order).
C30_ParsersEquivalent ==
    (ppc = "done" /\ EveryBoxHasEvents) =>
        (~threw /\ DaysOf(dailyMenus) = DaysOf(scraperState.completedDays))
(***************************************************************************)
(* SpecParses: several calls of parseCalendarFragment (two meal types, or  *)
(* two requests) are in progress at once.  Each call creates its own state *)
(* object (part_000:192-199, part_001:278) and its handlers close over     *)
(* that object; the runtime delivers the elements of each call's fragment  *)
(* in document order and interleaves the calls in any order.  parses[p] is *)
(* call p: its arguments, how far its fragment has been read, its state    *)
(* object and what it returned.                                            *)
(***************************************************************************)

\* bound: the calls in progress at once
NumParses == 2

\* the state object that call p reads and writes: one that the call created
InstanceOf_Shared(p) == 1

InstanceOf(p) == p

\* the fragments the calls are given
Fragments ==
    { <<>>,
      << [tag |-> "daybox", classNames |-> {"fsStateHasEvents"}],
         [tag |-> "date", attrs |-> FridayAttrs],
         [tag |-> "info"],
         [tag |-> "title", title |-> T_Pizza] >>,
      << [tag |-> "daybox", classNames |-> {"fsStateHasEvents"}],
         [tag |-> "date", attrs |-> [day |-> "10", month |-> "2", year |-> "2025"]],
         [tag |-> "info"],
         [tag |-> "color", style |-> <<"b", "a", "c", "k", "g", "r", "o", "u", "n", "d", ":", "#", "b", "c", "0", "9", "4", "5">>],
         [tag |-> "title", title |-> T_TofuWithRice] >> }

\* the objects a call creates: part_000:192-199, part_001:278
NewInstance(type) ==
    [state |-> [currentDayBox |-> NULL, currentMenuItem |-> NULL],
     dayBoxes |-> <<>>,
     scraperState |-> [mealType |-> type, currentDayBox |-> NULL,
                       currentMenuItem |-> NULL, completedDays |-> <<>>]]

\* the handler of the element's selector runs on the state object; box is
\* the number of day-box elements read before
Handle(ver, obj, event, box) ==
    IF ver = "closure"
    THEN CASE event.tag = "daybox" ->
                  [obj EXCEPT !.dayBoxes = CompleteDayBox(obj.state, obj.dayBoxes).dayBoxes,
                              !.state = OpenDayBox(event.classNames, box + 1)]
           [] event.tag = "date" ->
                  [obj EXCEPT !.state = ClosureDate(obj.state, event.attrs, box)]
           [] event.tag = "info" ->
                  [obj EXCEPT !.state = ClosureInfo(obj.state, box)]
           [] event.tag = "color" ->
                  [obj EXCEPT !.state = ClosureColorIcon(obj.state, event.style)]
           [] event.tag = "title" ->
                  [obj EXCEPT !.state = ClosureEventTitle(obj.state, event.title)]
    ELSE CASE event.tag = "daybox" ->
                  [obj EXCEPT !.scraperState = ScraperDaybox(obj.scraperState, event.classNames, box + 1)]
           [] event.tag = "date" ->
                  [obj EXCEPT !.scraperState = ScraperDate(obj.scraperState, event.attrs, box)]
           [] event.tag = "info" ->
                  [obj EXCEPT !.scraperState = StartMenuItem(obj.scraperState, box)]
           [] event.tag = "color" ->
                  [obj EXCEPT !.scraperState = ScraperColorIcon(obj.scraperState, event.style)]
           [] event.tag = "title" ->
                  [obj EXCEPT !.scraperState = ScraperEventTitle(obj.scraperState, event.title)]

\* what the call resolves to after the stream ended: part_000:338-360 and
\* part_001:351-356
Resolve(ver, obj, type) ==
    IF ver = "closure"
    THEN LET final == CompleteDayBox(obj.state, obj.dayBoxes)
         IN  IF ConversionThrows(final.dayBoxes)
             THEN [threw |-> TRUE, dailyMenus |-> <<>>]
             ELSE [threw |-> FALSE, dailyMenus |-> ConvertDayBoxes(final.dayBoxes, type)]
    ELSE [threw |-> FALSE,
          dailyMenus |-> EndDayBox(EndMenuItem(obj.scraperState)).completedDays]

BoxesIn(fragment, n) == Cardinality({i \in 1..n : fragment[i].tag = "daybox"})

\* the state object after the first n elements of the fragment, when the
\* call runs alone
RECURSIVE ObjectAfter(_, _, _, _)
ObjectAfter(ver, type, fragment, n) ==
    IF n = 0 THEN NewInstance(type)
    ELSE Handle(ver, ObjectAfter(ver, type, fragment, n - 1), fragment[n],
                BoxesIn(fragment, n - 1))

\* what the call returns when it runs alone
RunAlone(ver, type, fragment) ==
    Resolve(ver, ObjectAfter(ver, type, fragment, Len(fragment)), type)

IdleParse ==
    [pc |-> "idle", mealType |-> "lunch", fragment |-> <<>>, pos |-> 0,
     obj |-> NULL, returned |-> NULL, interleaved |-> FALSE]

InitParses ==
    /\ version \in Versions
    /\ parses = [p \in 1..NumParses |-> IdleParse]
    /\ mealType = "lunch"
    /\ state = [currentDayBox |-> NULL, currentMenuItem |-> NULL]
    /\ dayBoxes = <<>>
    /\ dailyMenus = <<>>
    /\ threw = FALSE
    /\ scraperState = [mealType |-> "lunch", currentDayBox |-> NULL,
                       currentMenuItem |-> NULL, completedDays |-> <<>>]
    /\ doc = [boxes |-> <<>>, infos |-> 0]
    /\ ppc = "idle"
    /\ events = <<>>
    /\ NoIndex
    /\ NoFetch
    /\ NoMenu
    /\ NoStore
    /\ NoSchedule /\ NoWorker /\ NoLayout

\* another call is between two of its elements
OthersMidway(p) ==
    \E q \in 1..NumParses :
        q /= p /\ parses[q].pc = "parsing" /\ parses[q].pos > 0

\* parseCalendarFragment(response, mealType) is called: the state object is
\* created and the rewriter is set up
StartParse(p, type, fragment) ==
    /\ parses[p].pc = "idle"
    /\ parses' = [[parses EXCEPT ![p] = [@ EXCEPT !.pc = "parsing",
                                                  !.mealType = type,
                                                  !.fragment = fragment]]
                      EXCEPT ![InstanceOf(p)].obj = NewInstance(type)]
    /\ UNCHANGED <<parseVars, events, indexVars, fetchVars, menuVars, storeVars, scheduleVars, workerVars, layoutVars>>

\* the next element of the call's fragment reaches its handler
HandleNext(p) ==
    /\ parses[p].pc = "parsing"
    /\ parses[p].pos < Len(parses[p].fragment)
    /\ parses' = [[parses EXCEPT ![p] = [@ EXCEPT !.pos = @ + 1,
                                                  !.interleaved = @ \/ OthersMidway(p)]]
                      EXCEPT ![InstanceOf(p)].obj =
                                 Handle(version, parses[InstanceOf(p)].obj,
                                        parses[p].fragment[parses[p].pos + 1],
                                        BoxesIn(parses[p].fragment, parses[p].pos))]
    /\ UNCHANGED <<parseVars, events, indexVars, fetchVars, menuVars, storeVars, scheduleVars, workerVars, layoutVars>>

\* the call's stream ended: the call completes what is open and returns
EndParse(p) ==
    /\ parses[p].pc = "parsing"
    /\ parses[p].pos = Len(parses[p].fragment)
    /\ parses' = [parses EXCEPT ![p] = [@ EXCEPT
                      !.pc = "done",
                      !.returned = Resolve(version, parses[InstanceOf(p)].obj,
                                           parses[p].mealType)]]
    /\ UNCHANGED <<parseVars, events, indexVars, fetchVars, menuVars, storeVars, scheduleVars, workerVars, layoutVars>>

NextParses ==
    \/ \E p \in 1..NumParses, type \in RequestedMealTypes, fragment \in Fragments :
           StartParse(p, type, fragment)
    \/ \E p \in 1..NumParses : HandleNext(p)
    \/ \E p \in 1..NumParses : EndParse(p)

SpecParses == InitParses /\ [][NextParses]_vars

\* a step of call p leaves every other call as it was
StepsLeaveOthers ==
    \A p \in 1..NumParses :
        (HandleNext(p) \/ EndParse(p)
           \/ \E type \in RequestedMealTypes, fragment \in Fragments : StartParse(p, type, fragment))
        => \A q \in 1..NumParses : q /= p => parses'[q] = parses[q]

\* C23: parses are independent: however the elements of the calls are
\* interleaved, each call returns exactly what it returns when it runs
\* alone on its fragment, and no step of one call changes the state object,
\* the position or the result of another.
C23_ParsesIndependent ==
    /\ [](\A p \in 1..NumParses :
             parses[p].pc = "done" =>
                 parses[p].returned =
                     RunAlone(version, parses[p].mealType, parses[p].fragment))
    /\ [][StepsLeaveOthers]_vars

\* C23 witness: two calls whose elements were interleaved have returned,
\* one a lunch of 2025-03-07 and the other a breakfast of 2025-03-10
C23_Witness ==
    /\ \A p \in 1..NumParses : parses[p].pc = "done" /\ parses[p].interleaved
    /\ Len(parses[1].returned.dailyMenus) = 1
    /\ parses[1].returned.dailyMenus[1].mealType = "lunch"
    /\ parses[1].returned.dailyMenus[1].date = DaysFromCivil(2025, 3, 7)
    /\ Len(parses[2].returned.dailyMenus) = 1
    /\ parses[2].returned.dailyMenus[1].mealType = "breakfast"
    /\ parses[2].returned.dailyMenus[1].date = DaysFromCivil(2025, 3, 10)
(***************************************************************************)
(* Further claims about the Temporal Index, checked on SpecIndex.          *)
(***************************************************************************)

\* the weeks of the list that start on or after the Monday after the date
StartingFromMondayAfter(t) ==
    {i \in 1..Len(weeklyMenus) : weeklyMenus[i].startDate >= MondayAfter(t)}

SortedByStartDate ==
    \A i \in 1..Len(weeklyMenus) : \A j \in i..Len(weeklyMenus) :
        weeklyMenus[i].startDate <= weeklyMenus[j].startDate

MONDAY == 1
FRIDAY == 5

\* index.ts:335-347
GetQuadrantWeekday(date) ==
    LET dayOfWeek == GetDay(date)
    IN  IF dayOfWeek = 0 \/ dayOfWeek = 6 THEN MONDAY ELSE dayOfWeek

\* variant: the weekday after, also after Friday
GetNextWeekday_PastFriday(wd) == [weekday |-> wd + 1]

\* index.ts:305-310
GetNextWeekday(wd) ==
    IF wd >= FRIDAY THEN NULL ELSE [weekday |-> wd + 1]

\* index.ts:313-318
GetHalfVerticalWeekdays(date) ==
    LET firstWeekday == GetQuadrantWeekday(date)
        secondWeekday == GetNextWeekday(firstWeekday)
    IN  [first |-> firstWeekday, second |-> secondWeekday]

\* bound: the dates the layouts are asked for, consecutive days from
\* Monday 2025-02-24
NumLayoutDays == 70

LayoutDates == { DaysFromCivil(2025, 2, 24) + k : k \in 0..(NumLayoutDays - 1) }

InitLayout ==
    /\ layout = NULL
    /\ column = NULL
    /\ NoIndex /\ NoParse /\ NoFetch /\ NoMenu
    /\ NoStore /\ NoSchedule /\ NoStream /\ NoWorker

\* quadrantLayout: getQuadrantWeekday(date)
CallGetQuadrantWeekday(date) ==
    /\ layout' = [fn |-> "getQuadrantWeekday", date |-> date,
                  first |-> GetQuadrantWeekday(date), second |-> NULL]
    /\ UNCHANGED <<column, indexVars, parseVars, fetchVars, menuVars,
                   storeVars, scheduleVars, streamVars, workerVars>>

\* halfHorizontalLayout and halfVerticalLayout: getHalfVerticalWeekdays(date)
CallGetHalfVerticalWeekdays(date) ==
    /\ layout' = [fn |-> "getHalfVerticalWeekdays", date |-> date,
                  first |-> GetHalfVerticalWeekdays(date).first,
                  second |-> GetHalfVerticalWeekdays(date).second]
    /\ UNCHANGED <<column, indexVars, parseVars, fetchVars, menuVars,
                   storeVars, scheduleVars, streamVars, workerVars>>

NextLayout ==
    \/ \E date \in LayoutDates : CallGetQuadrantWeekday(date)
    \/ \E date \in LayoutDates : CallGetHalfVerticalWeekdays(date)

SpecLayout == InitLayout /\ [][NextLayout]_vars

\* the weekday of the calendar day, 0 = Sunday .. 6 = Saturday, from the
\* Monday 2025-02-24
WeekdayOfDay(t) == (((t - DaysFromCivil(2025, 2, 24)) % 7) + 1) % 7

\* C32: getQuadrantWeekday returns the date's own weekday for Monday to
\* Friday and Monday for Saturday and Sunday; getHalfVerticalWeekdays gives
\* the same first day and as second day the weekday after it, absent when
\* the first is Friday; no day either gives is a Saturday or a Sunday.
C32_SmallLayoutDays ==
    layout /= NULL =>
        /\ layout.first = (IF WeekdayOfDay(layout.date) \in {0, 6} THEN 1
                           ELSE WeekdayOfDay(layout.date))
        /\ layout.first \in 1..5
        /\ layout.fn = "getHalfVerticalWeekdays" =>
               /\ layout.second = (IF layout.first = 5 THEN NULL
                                   ELSE [weekday |-> layout.first + 1])
               /\ layout.second /= NULL => layout.second.weekday \in 1..5

\* C32 witness: getHalfVerticalWeekdays was called with Friday 2025-03-07 and
\* gave Friday and no second day
C32_Witness ==
    /\ layout /= NULL
    /\ layout.fn = "getHalfVerticalWeekdays"
    /\ layout.date = DaysFromCivil(2025, 3, 7)
    /\ layout.first = 5
    /\ layout.second = NULL
(***************************************************************************)
(* SpecColumn: the columns of the layouts (src/src/index.ts) on the weeks  *)
(* that groupDailyMenusByWeek made of a scrape's DailyMenus.               *)
(***************************************************************************)

\* date-fns addDays(date, amount)
AddDays(date, amount) == date + amount

\* variant: the offset counted from Sunday
GetDateForWeekday_FromSunday(weeklyMenu, wd) == AddDays(weeklyMenu.startDate, wd)

\* index.ts:234-239
GetDateForWeekday(weeklyMenu, wd) ==
    LET mondayOffset == wd - 1
    IN  AddDays(weeklyMenu.startDate, mondayOffset)

\* bound: the DailyMenus of a scrape
MaxColumnMenus == 2

\* the DailyMenus a scrape may hold: breakfast and lunch on Friday
\* 2025-03-07, Sunday 2025-03-09, Monday 2025-03-10 and Wednesday 2025-03-26
ColumnDailyMenus ==
    {DailyMenu([date |-> d, mealType |-> type]) :
        d \in {Iso(2025, 3, 7), Iso(2025, 3, 9), Iso(2025, 3, 10), Iso(2025, 3, 26)},
        type \in {"breakfast", "lunch"}}

ColumnLists == UNION {[1..n -> ColumnDailyMenus] : n \in 1..MaxColumnMenus}

\* the MonthlyMenu that fetchAllMealsForDateAjax returned
InitColumn ==
    /\ monthly \in {MonthlyMenuOf(DaysFromCivil(2025, 3, 15), all) : all \in ColumnLists}
    /\ json = NULL
    /\ restored = NULL
    /\ weekday = 0
    /\ meals = NULL
    /\ itemData = NULL
    /\ item = NULL
    /\ layout = NULL
    /\ column = NULL
    /\ NoIndex /\ NoParse /\ NoFetch
    /\ NoStore /\ NoSchedule /\ NoStream /\ NoWorker

\* the date and the meals that a column shows
ColumnOf(fn, w, wd) ==
    LET weeklyMenu == monthly.weeklyMenus[w]
    IN  [fn |-> fn, week |-> w, weekday |-> wd,
         date |-> GetDateForWeekday(weeklyMenu, wd),
         meals |-> GetMealsByWeekday(weeklyMenu, wd)]

\* createWeekdayColumn(weeklyMenu, weekday), index.ts:242-247
CreateWeekdayColumn(w, wd) ==
    /\ w \in 1..Len(monthly.weeklyMenus)
    /\ column' = ColumnOf("createWeekdayColumn", w, wd)
    /\ UNCHANGED <<layout, indexVars, parseVars, fetchVars, menuVars,
                   storeVars, scheduleVars, streamVars, workerVars>>

\* createQuadrantColumn(weeklyMenu, weekday), index.ts:350-354
CreateQuadrantColumn(w, wd) ==
    /\ w \in 1..Len(monthly.weeklyMenus)
    /\ column' = ColumnOf("createQuadrantColumn", w, wd)
    /\ UNCHANGED <<layout, indexVars, parseVars, fetchVars, menuVars,
                   storeVars, scheduleVars, streamVars, workerVars>>

NextColumn ==
    \/ \E w \in 1..MaxColumnMenus, wd \in MONDAY..FRIDAY : CreateWeekdayColumn(w, wd)
    \/ \E w \in 1..MaxColumnMenus, wd \in MONDAY..FRIDAY : CreateQuadrantColumn(w, wd)

SpecColumn == InitColumn /\ [][NextColumn]_vars

\* the DailyMenus that getMealsByWeekday returned
ReturnedMeals(m) == {m.breakfast, m.lunch, m.snack} \ {NULL}

\* C33: for every week made by groupDailyMenusByWeek and every weekday w in
\* Monday..Friday the column's date is startDate + (w - 1) days, lies from
\* startDate to endDate, falls on weekday w, and is the date of every
\* DailyMenu that getMealsByWeekday(w) returned for the column.
C33_ColumnDateIsMealsDate ==
    column /= NULL =>
        LET weeklyMenu == monthly.weeklyMenus[column.week]
        IN  /\ column.date = weeklyMenu.startDate + (column.weekday - 1)
            /\ weeklyMenu.startDate <= column.date
            /\ column.date <= weeklyMenu.endDate
            /\ WeekdayOfDay(column.date) = column.weekday
            /\ \A menu \in ReturnedMeals(column.meals) : menu.date = column.date

\* C33 witness: the Wednesday column of the second week, which starts on
\* Monday 2025-03-24, shows 2025-03-26 and that day's lunch
C33_Witness ==
    /\ column /= NULL
    /\ column.week = 2
    /\ column.weekday = 3
    /\ column.date = DaysFromCivil(2025, 3, 26)
    /\ column.meals.lunch /= NULL
    /\ column.meals.lunch.date = DaysFromCivil(2025, 3, 26)
(***************************************************************************)
(* SpecWorker: the worker (src/src/index.ts) serving POST /api/markup      *)
(* requests and scheduled runs.  Every request passes the middleware that  *)
(* sets FAKE_NOW from its 'now' query parameter; a handler runs up to its  *)
(* next await in one step, and the requests in progress interleave at the  *)
(* awaits.  reqs[r] is request or run r.  A Date is [time |-> day number]  *)
(* or InvalidDate.                                                         *)
(***************************************************************************)

\* bounds: the requests and runs, and the days the real clock advances
NumRequests == 2
MaxTicks == 1

\* new Date(maybeNow) for the 'now' parameters of the model; text that is no
\* date gives an Invalid Date
DateOfText(text) ==
    CASE text = "2025-03-12" -> [time |-> DaysFromCivil(2025, 3, 12)]
      [] text = "2025-04-02" -> [time |-> DaysFromCivil(2025, 4, 2)]
      [] text = "2024-01-03" -> [time |-> DaysFromCivil(2024, 1, 3)]
      [] text = "2024-01-13" -> [time |-> DaysFromCivil(2024, 1, 13)]
      [] OTHER -> InvalidDate

\* variant: a request without the parameter clears the override
NextFakeNow_PerRequest(old, maybeNow) ==
    IF maybeNow /= NoAttr THEN DateOfText(maybeNow) ELSE NULL

\* index.ts:17-22, part_002:15-20: FAKE_NOW after the middleware
NextFakeNow(old, maybeNow) ==
    IF maybeNow /= NoAttr THEN DateOfText(maybeNow) ELSE old

\* index.ts:15: currentDate = () => FAKE_NOW || new Date()
CurrentDate == IF fakeNow /= NULL THEN fakeNow ELSE [time |-> clock]

\* the values of FAKE_NOW when the module is loaded: null (part_002:11) and
\* new Date("2025-03-01") (index.ts:13)
InitialFakeNows == {NULL, [time |-> DaysFromCivil(2025, 3, 1)]}

\* the real time when the module is loaded: Wednesday 2025-03-12
FirstDay == DaysFromCivil(2025, 3, 12)

\* the 'now' query parameter: absent or empty, two dates, and text that is
\* no date
NowParams == {NoAttr, "2025-03-12", "2025-04-02", "abc"}

\* the Authorization header: absent or empty, a scheme alone, a scheme and a
\* space, and a scheme with a token
AuthHeaders == {<<>>, <<"B", "e", "a", "r", "e", "r">>, <<"B", "e", "a", "r", "e", "r", " ">>,
                <<"B", "e", "a", "r", "e", "r", " ", "t", "o", "k">>}

\* the uuid query parameter: absent or empty, or given
UuidParams == {NoAttr, "u1"}

\* the object under MENU_PATH: absent, a body that is no JSON, and the JSON
\* of a MonthlyMenu with the weeks of 2025-03-10 and 2025-03-17
StoredObjects ==
    {NULL,
     [unparsable |-> TRUE],
     MonthlyMenuToJSON(MonthlyMenu([year |-> 2025, month |-> 3, weeklyMenus |->
         <<WeeklyMenu([startDate |-> Iso(2025, 3, 10), endDate |-> Iso(2025, 3, 16)]),
           WeeklyMenu([startDate |-> Iso(2025, 3, 17), endDate |-> Iso(2025, 3, 23)])>>]))}

\* authHeader.split(" ")[1]: the text between the first space and the next
\* (<<>> for undefined and for "", both falsy)
SecondPiece(str) ==
    LET spaces == {i \in 1..Len(str) : str[i] = " "}
    IN  IF spaces = {} THEN <<>>
        ELSE LET a == CHOOSE i \in spaces : \A j \in spaces : i <= j
                 rest == {i \in spaces : i > a}
                 b == IF rest = {} THEN Len(str) + 1
                      ELSE CHOOSE i \in rest : \A j \in rest : i <= j
             IN  SubSeq(str, a + 1, b - 1)

\* the days the half layouts show for the date
HalfDays(date) ==
    LET days == GetHalfVerticalWeekdays(date)
    IN  IF days.second = NULL THEN <<days.first>>
        ELSE <<days.first, days.second.weekday>>

\* index.ts:446-451: the four markups, each with the week it is rendered
\* from and the weekdays of its columns
Markups(week, date) ==
    [markup |-> [week |-> week, days |-> <<1, 2, 3, 4, 5>>],
     markup_half_horizontal |-> [week |-> week, days |-> HalfDays(date)],
     markup_half_vertical |-> [week |-> week, days |-> HalfDays(date)],
     markup_quadrant |-> [week |-> week, days |-> <<GetQuadrantWeekday(date)>>]]

IdleRequest ==
    [pc |-> "idle", kind |-> "", auth |-> <<>>, uuid |-> NoAttr, read |-> FALSE,
     body |-> NULL, seen |-> NULL, status |-> 0, error |-> "", week |-> 0,
     markups |-> NULL]

InitWorker ==
    /\ fakeNow \in InitialFakeNows
    /\ clock = FirstDay
    /\ reqs = [r \in 1..NumRequests |-> IdleRequest]
    /\ overrides = <<>>
    /\ stored \in StoredObjects
    /\ runs = <<>>
    /\ scraped = {}
    /\ NoIndex /\ NoParse /\ NoFetch /\ NoMenu
    /\ NoSchedule /\ NoStream /\ NoLayout

\* the middleware of index.ts:17-24 for request r
Middleware(r, maybeNow) ==
    /\ fakeNow' = NextFakeNow(fakeNow, maybeNow)
    /\ overrides' = IF maybeNow /= NoAttr
                    THEN Append(overrides, [by |-> r, date |-> DateOfText(maybeNow)])
                    ELSE overrides

\* a POST /api/markup request arrives: the middleware, then the handler up
\* to await c.env.MENU_DATA.get (index.ts:408-424)
MarkupArrives(r, authHeader, uuid, maybeNow) ==
    /\ reqs[r].pc = "idle"
    /\ Middleware(r, maybeNow)
    /\ LET accessToken == SecondPiece(authHeader)
           req == [reqs[r] EXCEPT !.kind = "markup", !.auth = authHeader, !.uuid = uuid]
       IN  reqs' = [reqs EXCEPT ![r] =
               IF authHeader = <<>> \/ uuid = NoAttr \/ accessToken = <<>>
               THEN [req EXCEPT !.pc = "done", !.status = 401, !.error = "Unauthorized"]
               ELSE [req EXCEPT !.pc = "get", !.read = TRUE]]
    /\ UNCHANGED <<clock, storeVars, indexVars, parseVars, fetchVars, menuVars,
                   scheduleVars, streamVars, layoutVars>>

\* MENU_DATA.get resolved: index.ts:425-432, up to await monthlyMenuJson.json()
GetResolves(r) ==
    /\ reqs[r].pc = "get"
    /\ reqs' = [reqs EXCEPT ![r] =
           IF stored = NULL
           THEN [@ EXCEPT !.pc = "done", !.status = 404, !.error = "No menu data found"]
           ELSE [@ EXCEPT !.pc = "json", !.body = stored]]
    /\ UNCHANGED <<fakeNow, clock, overrides, storeVars, indexVars, parseVars,
                   fetchVars, menuVars, scheduleVars, streamVars, layoutVars>>

\* monthlyMenuJson.json() settled: index.ts:431-453.  currentDate() is read
\* here, by the handler and by the layouts; format throws on an Invalid
\* Date in getWeeklyMenuForDate (models.ts:337), outside the try, and the
\* framework answers the uncaught error with 500
JsonSettles(r) ==
    /\ reqs[r].pc = "json"
    /\ reqs' = [reqs EXCEPT ![r] =
           IF reqs[r].body = [unparsable |-> TRUE]
           THEN [@ EXCEPT !.pc = "done", !.status = 500, !.error = "Error parsing menu data"]
           ELSE LET monthlyMenu_ == MonthlyMenuFromJSON(reqs[r].body)
                    now == CurrentDate
                IN  IF now = InvalidDate
                    THEN [@ EXCEPT !.pc = "done", !.seen = now, !.status = 500,
                                   !.error = "uncaught RangeError"]
                    ELSE LET menu == GetWeeklyMenuForDate(monthlyMenu_.weeklyMenus, now.time)
                         IN  IF menu = 0
                             THEN [@ EXCEPT !.pc = "done", !.seen = now, !.status = 404,
                                            !.error = "No weekly menu found"]
                             ELSE [@ EXCEPT !.pc = "done", !.seen = now, !.status = 200,
                                            !.week = menu,
                                            !.markups = Markups(menu, now.time)]]
    /\ UNCHANGED <<fakeNow, clock, overrides, storeVars, indexVars, parseVars,
                   fetchVars, menuVars, scheduleVars, streamVars, layoutVars>>

\* a scheduled run starts: index.ts:462-466, currentDate() is the argument
\* of fetchAllMealsForDateAjax; no middleware runs
ScheduledStarts(r) ==
    /\ reqs[r].pc = "idle"
    /\ reqs' = [reqs EXCEPT ![r] = [@ EXCEPT !.pc = "done", !.kind = "scheduled",
                                              !.seen = CurrentDate]]
    /\ UNCHANGED <<fakeNow, clock, overrides, storeVars, indexVars, parseVars,
                   fetchVars, menuVars, scheduleVars, streamVars, layoutVars>>

\* a day passes
Tick ==
    /\ clock < FirstDay + MaxTicks
    /\ clock' = clock + 1
    /\ UNCHANGED <<fakeNow, reqs, overrides, storeVars, indexVars, parseVars,
                   fetchVars, menuVars, scheduleVars, streamVars, layoutVars>>

NextWorker ==
    \/ \E r \in 1..NumRequests, authHeader \in AuthHeaders, uuid \in UuidParams,
          maybeNow \in NowParams : MarkupArrives(r, authHeader, uuid, maybeNow)
    \/ \E r \in 1..NumRequests : GetResolves(r)
    \/ \E r \in 1..NumRequests : JsonSettles(r)
    \/ \E r \in 1..NumRequests : ScheduledStarts(r)
    \/ Tick

SpecWorker == InitWorker /\ [][NextWorker]_vars

\* the override in force: the date of the last 'now' parameter that any
\* request carried
LatestOverride == overrides[Len(overrides)].date

\* request or run r reads the current date in this step
ReadsCurrentDate(r) == reqs[r].seen = NULL /\ reqs'[r].seen /= NULL

FakeClockSticks ==
    /\ fakeNow /= NULL => fakeNow' /= NULL
    /\ overrides /= <<>> => overrides' /= <<>>
    /\ \A r \in 1..NumRequests :
           ReadsCurrentDate(r) /\ overrides /= <<>> => reqs'[r].seen = LatestOverride

\* C35: the fake clock is global and sticky.  Once a request has carried
\* 'now', FAKE_NOW is the date of the latest such parameter, it never
\* returns to null, and every request and scheduled run that reads the
\* current date afterwards -- whether or not it carried the parameter
\* itself -- reads that date, never the real clock.
C35_FakeClockGlobalSticky ==
    /\ [](overrides /= <<>> => fakeNow = LatestOverride)
    /\ [][FakeClockSticks]_vars

\* C35: request r carried 'now', a second request overrode it with another
\* date before r read the current date, and r saw the other request's date;
\* the other one is a scheduled run or request that saw it too
C35_Witness ==
    \E r, q \in 1..NumRequests :
        /\ r /= q
        /\ Len(overrides) = 2
        /\ overrides[1].by = r /\ overrides[2].by = q
        /\ overrides[1].date /= overrides[2].date
        /\ reqs[r].kind = "markup" /\ reqs[r].seen = overrides[2].date
        /\ reqs[r].seen /= [time |-> clock]
        /\ reqs[r].status = 200
\* the request lacks the Authorization header, the token after the scheme,
\* or the uuid
Unauthorized(req) ==
    req.auth = <<>> \/ SecondPiece(req.auth) = <<>> \/ req.uuid = NoAttr

\* the week of the stored hierarchy that resolves for the date: 0 when
\* there is none, an Invalid Date included
WeekResolved(body, date) ==
    IF date = InvalidDate THEN 0
    ELSE GetWeeklyMenuForDate(MonthlyMenuFromJSON(body).weeklyMenus, date.time)

AllFromWeek(markups, week) ==
    /\ markups /= NULL
    /\ markups.markup.week = week
    /\ markups.markup_half_horizontal.week = week
    /\ markups.markup_half_vertical.week = week
    /\ markups.markup_quadrant.week = week

MarkupOutcome(req) ==
    IF Unauthorized(req) THEN req.status = 401 /\ ~req.read
    ELSE IF stored = NULL THEN req.status = 404
    ELSE IF stored = [unparsable |-> TRUE] THEN req.status = 500
    ELSE IF WeekResolved(stored, req.seen) = 0
         THEN req.status = 404 /\ req.error = "No weekly menu found"
    ELSE /\ req.status = 200
         /\ AllFromWeek(req.markups, WeekResolved(stored, req.seen))

\* C34: every answered POST /api/markup request has the outcome of the
\* first case that applies: 401 with no read of the stored menu when the
\* Authorization header, its token or the uuid is missing; 404 when no menu
\* is stored; 500 when the stored data does not deserialize; 404 when no
\* week resolves for the current date; otherwise the four markups, all
\* rendered from the week getWeeklyMenuForDate resolves for that date.
C34_MarkupOutcomes ==
    \A r \in 1..NumRequests :
        reqs[r].kind = "markup" /\ reqs[r].pc = "done" => MarkupOutcome(reqs[r])

\* the outcomes of C34 with the override 'now' parameters restricted to
\* text that is a date
MarkupOutcomesForValidDates ==
    (\A i \in 1..Len(overrides) : overrides[i].date /= InvalidDate) => C34_MarkupOutcomes
(***************************************************************************)
(* SpecAmbient: getWeeklyMenuForDate called on a MonthlyMenu while         *)
(* requests change the fake clock and the real clock advances.             *)
(***************************************************************************)

\* the 'now' parameters of the requests: absent, a Wednesday and a Saturday
\* within the weeks of WeekData
AmbientNowParams == {NoAttr, "2024-01-03", "2024-01-13"}

\* the real time at the start: Wednesday 2023-12-27
AmbientFirstDay == DaysFromCivil(2023, 12, 27)

\* the dates asked for: every third day of TargetDates, from Sat 2023-12-23
AmbientTargetDates ==
    { date \in TargetDates : (date - DaysFromCivil(2023, 12, 23)) % 3 = 0 }

InitAmbient ==
    /\ NoIndex
    /\ fakeNow \in InitialFakeNows
    /\ clock = AmbientFirstDay
    /\ reqs = <<>>
    /\ overrides = <<>>
    /\ NoParse /\ NoFetch /\ NoMenu
    /\ NoStore /\ NoSchedule /\ NoStream /\ NoLayout

\* a request passes the middleware of index.ts:17-24
RequestPasses(maybeNow) ==
    /\ Len(overrides) < NumRequests
    /\ Middleware(Len(overrides) + 1, maybeNow)
    /\ overrides' /= overrides
    /\ UNCHANGED <<clock, reqs, storeVars, indexVars, parseVars, fetchVars,
                   menuVars, scheduleVars, streamVars, layoutVars>>

\* days pass
AmbientTick ==
    /\ clock < AmbientFirstDay + 7 * MaxTicks
    /\ clock' = clock + 7
    /\ UNCHANGED <<fakeNow, reqs, overrides, storeVars, indexVars, parseVars,
                   fetchVars, menuVars, scheduleVars, streamVars, layoutVars>>

NextAmbient ==
    \/ \E data \in WeekData : AddWeeklyMenu(data)
    \/ \E date \in AmbientTargetDates : CallGetWeeklyMenuForDate(date)
    \/ \E maybeNow \in AmbientNowParams : RequestPasses(maybeNow)
    \/ AmbientTick

SpecAmbient == InitAmbient /\ [][NextAmbient]_vars

\* the ambient current date resolves to another week than the outstanding
\* result
AmbientElsewhere ==
    /\ fakeNow /= NULL
    /\ GetWeeklyMenuForDate(weeklyMenus, fakeNow.time) /= result
    /\ GetWeeklyMenuForDate(weeklyMenus, clock) /= result

CallIsPure(date) ==
    CallGetWeeklyMenuForDate(date) =>
        /\ weeklyMenus' = weeklyMenus
        /\ targetDate' = date
        /\ fakeNow' = fakeNow /\ clock' = clock
        /\ ipc = "returned" /\ targetDate = date => result' = result

\* a step that leaves a call outstanding is the call with the argument it
\* leaves
AllCallsPure == ipc' = "returned" => CallIsPure(targetDate')

\* C36: getWeeklyMenuForDate depends on its date argument and the week list
\* only.  A call repeated with the same argument on the same hierarchy
\* returns the same week, whatever requests have moved the fake clock or
\* however the real clock advanced in between, and a call changes neither
\* the hierarchy nor its argument nor the clock.
C36_NoAmbientTime == [][AllCallsPure]_vars

\* C36: a call returned a week for its argument while the fake clock, set
\* by a request, and the real clock both stand in other weeks
C36_Witness ==
    /\ ipc = "returned" /\ result /= 0
    /\ overrides /= <<>>
    /\ clock /= AmbientFirstDay
    /\ AmbientElsewhere
    /\ GetWeeklyMenuForDate(weeklyMenus, fakeNow.time) /= 0
====
